---- MODULE Spec2Model ----
(***************************************************************************)
(* A model of pytest-postgresql: the port allocation loop of the process   *)
(* fixture (factories/process.py), the database janitor (janitor.py), the  *)
(* retry helper, the executor's lifecycle, start command and stop(), the   *)
(* fixture factories and the loader builders (loader.py).                  *)
(*                                                                         *)
(* AllocSpec   - parallel workers running postgresql_proc_fixture's port   *)
(*               claim loop against one shared claim directory.            *)
(* FairRangeAllocSpec - the same for a port range, every worker running on.*)
(* JanitorSpec - janitors issuing their administrative SQL, statement by   *)
(*               statement, against one PostgreSQL server.                 *)
(* JanitorApiSpec - janitors from construction on, with any arguments, the *)
(*               connection each call opens and the loader load() calls.   *)
(* RetrySpec   - one call of retry on an operation that returns or raises. *)
(* ExecutorSpec - start() and stop() calls on one executor and the server  *)
(*               process it launches.                                      *)
(* FairRetrySpec - RetrySpec in which the operation and the sleep end.     *)
(* FixtureSpec - one fixture of the factories from setup to teardown.      *)
(* OsSpec      - an executor built on some platform and one call of stop().*)
(* LoaderSpec  - build_loader and build_loader_async on one directive,     *)
(*               from the configuration or from a factory's load argument. *)
(* RunSpec     - AllocSpec with each fixture running on after its claim.   *)
(* SoloJanitorSpec - one janitor and the clients of the tests.             *)
(* XdistSpec   - postgresql_noproc fixtures of parallel xdist workers.     *)
(***************************************************************************)
EXTENDS Integers, Sequences, FiniteSets, TLC

(* ------------------------------ bounds --------------------------------- *)
NumWorkers == 2
MaxPort == 3
MaxSearchCount == 1

MaxCalls == 3          \* calls of init/drop/load made on the janitors
MaxRows == 1           \* rows a database holds
MaxSessions == 1       \* client sessions connected to one database
MaxTimeout == 2        \* the longest timeout retry is called with
MaxOpTime == 1         \* the longest one invocation of the operation takes
MaxExecCalls == 3      \* calls of start() and stop() made on the executor
MaxLoad == 2           \* elements of a fixture's load list
MaxDepth == 3          \* dotted components of a directive's module path

Workers == 1..NumWorkers
Ports == 1..MaxPort

\* Python's None, as returned by port_for.get_port(-1)
None == 0

VARIABLES
    \* --- shared by all workers ---
    claim_files,        \* ports p for which <port_path>/postgresql-<p>.port exists
    os_used,            \* ports the operating system reports as in use
    port,               \* the fixture factory's `port` argument
    config,             \* get_config(request): port and port_search_count
    \* --- locals of postgresql_proc_fixture, per worker ---
    pc, n, used_ports, pg_port,
    \* --- history, per worker ---
    excluded,           \* the excluded_ports of the latest _pg_port call
    attempts,           \* ports on which open("x") was called
    opens,              \* how many times open("x") was called
    first_attempt,      \* the port of the first open("x") call
    created             \* ports whose claim file this worker's open("x") created

allocVars == <<claim_files, os_used, port, config, pc, n, used_ports, pg_port,
               excluded, attempts, opens, first_attempt, created>>

VARIABLES
    \* --- the PostgreSQL server ---
    dbs,                \* database name -> its catalog entry, content, sessions
    \* --- the janitors ---
    jan,                \* janitor -> its dbname and template_dbname
    op,                 \* janitor -> the method running or last run
    running,            \* janitor -> TRUE while that method's cursor is open
    ip,                 \* janitor -> statements of the method executed so far
    issued,             \* janitor -> statements the method has issued, in order
    outcome,            \* janitor -> "ok"/"error" of the last finished method
    after_init,         \* janitor -> the call before this one was init() and returned
    calls,              \* methods called so far, on all janitors
    \* --- history ---
    missing_at_drop,    \* janitor -> drop() was called with its target absent
    cloned_from         \* janitor -> the template's content when init() cloned it

janitorVars == <<dbs, jan, op, running, ip, issued, outcome, after_init, calls,
                 missing_at_drop, cloned_from>>

VARIABLES
    reachable,          \* the server accepts connections within the timeout
    constructed,        \* janitor -> "no", "yes", or "ValueError" of __init__
    ident,              \* janitor -> its user, password, host, port, isolation_level
    conn,               \* janitor -> the connection its latest cursor() made
    invoked,            \* janitor -> keyword arguments of the loader calls of load()
    cycles              \* janitor -> init() ... drop() pairs that both returned

connVars == <<reachable, constructed, ident, conn, invoked, cycles>>

VARIABLES
    \* --- retry(operation, timeout, retryable_error) ---
    r_pc,               \* "idle", "invoke", "sleep", "returned", "TimeoutError", "propagated"
    r_timeout,          \* the timeout retry was called with
    r_elapsed,          \* time since retry was called
    r_log,              \* outcomes of the invocations of the operation, in order
    r_result,           \* what retry returned
    r_raised,           \* the error retry raised, and the error it wraps
    \* --- the process executor ---
    ex_state,           \* "Stopped", "Starting", "Running", "Stopping"
    ex_proc,            \* the managed process: "none", "alive", "dead"
    ex_call,            \* the method of the executor in progress
    ex_ctx,             \* `with executor:` - "none", "entering", "body", "exiting", "exited", "failed"
    ex_history,         \* the finished calls of start() and stop(), with their results
    \* --- the server the executor launches ---
    launchable,         \* the start command can be launched
    srv_up,             \* the server answers a client connection
    srv_version         \* the version the server reports

retryVars == <<r_pc, r_timeout, r_elapsed, r_log, r_result, r_raised>>
execVars == <<ex_state, ex_proc, ex_call, ex_ctx, ex_history,
              launchable, srv_up, srv_version>>

VARIABLES
    \* --- one fixture function, from its call to the end of its teardown ---
    fx_kind,            \* the factory that made it
    fx_load,            \* the factory's `load` argument
    fx_config,          \* get_config(request): drop_test_database and load
    fx_env,             \* the `executable` argument, and what the host offers
    fx_pc,              \* where the fixture function is
    fx_janitor,         \* the janitor it constructed: dbname, template_dbname
    fx_i,               \* elements of pg_load handed to janitor.load so far
    fx_conn,            \* db_connection of the client fixture
    fx_error,           \* the exception on its way out of the function
    fx_trace            \* what the function has done, in order

fixtureVars == <<fx_kind, fx_load, fx_config, fx_env, fx_pc, fx_janitor, fx_i, fx_conn,
                 fx_error, fx_trace>>

VARIABLES
    \* --- PostgreSQLExecutor: its start command and its stop() ---
    platform_system,    \* platform.system()
    has_killpg,         \* hasattr(os, "killpg")
    executor,           \* the constructor's arguments and the command made of them
    st_pc,              \* where stop(), or the direct-terminate routine, is
    st_via,             \* "stop", or "direct" for a call of the routine itself
    st_args,            \* sig and exp_sig as stop() was called
    st_calls,           \* pg_ctl, parent and process calls made, in order
    st_result           \* what stop() returned

osVars == <<platform_system, has_killpg, executor, st_pc, st_via, st_args,
            st_calls, st_result>>

VARIABLES
    \* --- loader.py ---
    load_origin,        \* where the directive came from, and as what
    load_,              \* the directive: a callable, a Path or a str
    built_by,           \* "build_loader" or "build_loader_async", once called
    _loader             \* what it returned or raised

loaderVars == <<load_origin, load_, built_by, _loader>>

VARIABLES
    \* --- postgresql_noproc fixtures of parallel workers, one server ---
    cfg_dbname,         \* the dbname all workers are configured with
    xdist_worker,       \* worker -> its PYTEST_XDIST_WORKER
    np_pc,              \* worker -> where its fixture function is
    np_janitor,         \* worker -> the name its janitor manages
    touched             \* database name -> workers whose janitor acted on it

xdistVars == <<cfg_dbname, xdist_worker, np_pc, np_janitor, touched>>

extraVars == <<fixtureVars, osVars, loaderVars, xdistVars>>
procVars == <<retryVars, execVars, extraVars>>

vars == <<allocVars, janitorVars, connVars, procVars>>

(* ------------------------ janitors and databases ----------------------- *)
\* one instance of each of the two classes of janitor.py
Janitors == {"DatabaseJanitor", "AsyncDatabaseJanitor"}

\* Python's None for dbname / template_dbname
NoName == "None"
DbNames == {"db", "tpl"}

\* a name the server does not know
Absent == [exists |-> FALSE, is_template |-> FALSE, allow_conn |-> FALSE,
           content |-> 0, sessions |-> 0]

\* no retry is running
RetryUnused ==
    /\ r_pc = "idle"
    /\ r_timeout = 0
    /\ r_elapsed = 0
    /\ r_log = << >>
    /\ r_result = "none"
    /\ r_raised = [error |-> "none", cause |-> "none"]

\* no fixture function has been called
FixtureUnused ==
    /\ fx_kind = "none"
    /\ fx_load = << >>
    /\ fx_config = [drop_test_database |-> FALSE, load |-> << >>]
    /\ fx_env = [executable |-> "None", exec_exists |-> TRUE, pg_config |-> TRUE]
    /\ fx_pc = "none"
    /\ fx_janitor = [dbname |-> NoName, template_dbname |-> NoName]
    /\ fx_i = 0
    /\ fx_conn = "none"
    /\ fx_error = "none"
    /\ fx_trace = << >>

\* no executor has been constructed for the platform
NoExecutor ==
    [executable |-> "", datadir |-> "", port |-> "", logfile |-> "",
     unixsocketdir |-> "", postgres_options |-> "", startparams |-> "",
     command |-> << >>]

OsUnused ==
    /\ platform_system = "Linux"
    /\ has_killpg = TRUE
    /\ executor = NoExecutor
    /\ st_pc = "none"
    /\ st_via = "none"
    /\ st_args = [sig |-> "None", exp_sig |-> "None"]
    /\ st_calls = << >>
    /\ st_result = "none"

\* no directive has been given to a loader builder
LoaderUnused ==
    /\ load_origin = [from |-> "none", raw |-> [kind |-> "callable", text |-> << >>]]
    /\ load_ = [kind |-> "callable", text |-> << >>]
    /\ built_by = "none"
    /\ _loader = [status |-> "none", module |-> << >>, name |-> << >>]

\* no worker runs a postgresql_noproc fixture
XdistUnused ==
    /\ cfg_dbname = << >>
    /\ xdist_worker = [w \in Workers |-> << >>]
    /\ np_pc = [w \in Workers |-> "none"]
    /\ np_janitor = [w \in Workers |-> << >>]
    /\ touched = << >>

ExtraUnused == FixtureUnused /\ OsUnused /\ LoaderUnused /\ XdistUnused

\* the part of the state the port allocation and the janitors do not touch
ProcUnused ==
    /\ ExtraUnused
    /\ RetryUnused
    /\ ex_state = "Stopped"
    /\ ex_proc = "none"
    /\ ex_call = "none"
    /\ ex_ctx = "none"
    /\ ex_history = << >>
    /\ launchable = TRUE
    /\ srv_up = FALSE
    /\ srv_version = "13"

\* isolation_level: None, a psycopg.IsolationLevel, or a value that is
\* neither (the setter of conn.isolation_level raises on it)
NoLevel == "None"
IsolationLevels == {NoLevel, "SERIALIZABLE", "bogus"}
is_isolation_level(v) == v \in {NoLevel, "SERIALIZABLE"}

\* cursor(self, dbname="postgres")
ControlDb == "postgres"

\* user, password, host and port the two janitors are constructed with
ConnIdentity(j, level) ==
    IF j = "DatabaseJanitor"
    THEN [user |-> "user", password |-> "some_password", host |-> "host",
          port |-> "1234", isolation_level |-> level]
    ELSE [user |-> "user_async", password |-> "None", host |-> "host_async",
          port |-> "1235", isolation_level |-> level]

\* no connection made yet
NoConn == [open |-> FALSE, dbname |-> NoName, user |-> NoName,
           password |-> NoName, host |-> NoName, port |-> NoName,
           isolation_level |-> NoLevel, autocommit |-> FALSE,
           cursor |-> "none"]

\* the janitor part of the state when every janitor is constructed and idle
ConnIdle ==
    /\ reachable = TRUE
    /\ constructed = [j \in Janitors |-> "yes"]
    /\ conn = [j \in Janitors |-> NoConn]
    /\ invoked = [j \in Janitors |-> <<>>]
    /\ cycles = [j \in Janitors |-> 0]

\* the part of the state the port allocation does not touch
JanitorsUnused ==
    /\ ConnIdle
    /\ ident = [j \in Janitors |-> ConnIdentity(j, NoLevel)]
    /\ dbs = [d \in DbNames |-> Absent]
    /\ jan = [j \in Janitors |-> [dbname |-> "db", template_dbname |-> NoName]]
    /\ op = [j \in Janitors |-> "none"]
    /\ running = [j \in Janitors |-> FALSE]
    /\ ip = [j \in Janitors |-> 0]
    /\ issued = [j \in Janitors |-> <<>>]
    /\ outcome = [j \in Janitors |-> "none"]
    /\ after_init = [j \in Janitors |-> FALSE]
    /\ calls = 0
    /\ missing_at_drop = [j \in Janitors |-> FALSE]
    /\ cloned_from = [j \in Janitors |-> -1]

(* --------------------------- port requests ----------------------------- *)
\* The shapes of `port` the fixture factory documents.  One record type:
\* kind "fixed" uses .port, "range"/"set"/"list" use .ranges and .ports.
FixedPort(p) == [kind |-> "fixed", port |-> p, ranges |-> {}, ports |-> {}]
AnyPort == [kind |-> "any", port |-> None, ranges |-> {}, ports |-> {}]
ConfiguredPort == [kind |-> "default", port |-> -1, ranges |-> {}, ports |-> {}]
PortRange(lo, hi) == [kind |-> "range", port |-> None, ranges |-> {<<lo, hi>>}, ports |-> {}]
PortSet(s) == [kind |-> "set", port |-> None, ranges |-> {}, ports |-> s]
PortList(rs, s) == [kind |-> "list", port |-> None, ranges |-> rs, ports |-> s]

PortRequests ==
    { FixedPort(1), AnyPort, ConfiguredPort,
      PortRange(1, 2), PortRange(1, MaxPort),
      PortSet({1, MaxPort}),
      PortList({<<1, 1>>}, {2, MaxPort}) }

\* what the operating system may report as in use while the workers allocate
OsUsedChoices == { {}, {MaxPort} }

\* claim files left in the directory by fixtures that allocated earlier
EarlierClaimFiles == { 1..k : k \in 0..MaxPort }

\* config.port comes from the command line or the ini file: unset or a number
ConfigPorts == { AnyPort, FixedPort(2) }

\* port_for.utils.ranges_to_set: both ends of a range are included
ranges_to_set(ranges) == UNION { r[1]..r[2] : r \in ranges }

port_is_used(p) == p \in os_used

\* port_for.select_random: the possible results; the empty set stands for
\* PortForException("Can't select a port")
select_random(ports, exclude_ports) ==
    { p \in ports \ exclude_ports : ~port_is_used(p) }

\* port_for.get_port: the possible results.  {None} for -1; a fixed port is
\* returned as it is, whatever exclude_ports holds.
get_port(ports, exclude_ports) ==
    CASE ports.kind = "default" -> {None}
      [] ports.kind = "any"     -> select_random(Ports, exclude_ports)
      [] ports.kind = "fixed"   -> {ports.port}
      [] OTHER -> select_random(ranges_to_set(ports.ranges) \cup ports.ports,
                                exclude_ports)

\* (mutant) the excluded ports are not passed on to get_port
_pg_port_ignoring_excluded(port_, config_, excluded_ports) ==
    LET first == get_port(port_, {})
    IN  IF first = {None} THEN get_port(config_.port, {}) ELSE first

\* _pg_port: get_port(port, excluded) or get_port(config.port, excluded)
_pg_port(port_, config_, excluded_ports) ==
    LET first == get_port(port_, excluded_ports)
    IN  IF first = {None} THEN get_port(config_.port, excluded_ports) ELSE first

(* ------------------------- the claim protocol -------------------------- *)
\* (mutant) open(mode "w"): succeeds whether or not the file is there
open_w(files, p) == TRUE

\* (mutant) open(mode "a"): opens the file that is there, creates it otherwise
open_a(files, p) == TRUE

\* open(mode "x"): succeeds exactly when the file is not there yet
open_x(files, p) == p \notin files

\* (mutant) the chosen port is not recorded
used_ports_not_added(used, p) == used

\* used_ports.add(pg_port)
used_ports_add(used, p) == used \cup {p}

\* (mutant) a handler that gives up one collision later
search_exhausted_one_later(n_, config_) == n_ > config_.port_search_count

\* the handler's test `n >= config.port_search_count`
search_exhausted(n_, config_) == n_ >= config_.port_search_count

AllocInit ==
    /\ ProcUnused
    /\ claim_files \in EarlierClaimFiles
    /\ os_used \in OsUsedChoices
    /\ port \in PortRequests
    /\ config \in [port : ConfigPorts, port_search_count : 0..MaxSearchCount]
    \* config.port is read only when the fixture's port is -1
    /\ port.kind # "default" => config.port = AnyPort
    /\ pc = [w \in Workers |-> "loop"]
    /\ n = [w \in Workers |-> 0]
    /\ used_ports = [w \in Workers |-> {}]
    /\ pg_port = [w \in Workers |-> None]
    /\ excluded = [w \in Workers |-> {}]
    /\ attempts = [w \in Workers |-> {}]
    /\ opens = [w \in Workers |-> 0]
    /\ first_attempt = [w \in Workers |-> None]
    /\ created = [w \in Workers |-> {}]
    /\ JanitorsUnused

\* One pass through the body of `while True`: the try block and, when
\* open("x") raises FileExistsError, the handler.  Choosing the port reads
\* only the worker's own variables and the operating system's ports, so the
\* pass is one step; the workers interleave between passes.
\*   pg_port = _pg_port(port, config, used_ports)
\*   if pg_port in used_ports: raise PortForException(...)
\*   used_ports.add(pg_port)
\*   with port_filename_path.open("x"): ...; break
\*   except FileExistsError: if n >= config.port_search_count: raise ...; n += 1
ClaimPass(w) ==
    /\ pc[w] = "loop"
    /\ excluded' = [excluded EXCEPT ![w] = used_ports[w]]
    /\ LET choices == _pg_port(port, config, used_ports[w])
       IN  IF choices = {}
           THEN /\ pc' = [pc EXCEPT ![w] = "cannot_select"]
                /\ UNCHANGED <<claim_files, n, used_ports, pg_port, attempts,
                               opens, first_attempt, created>>
           ELSE \E p \in choices :
                /\ pg_port' = [pg_port EXCEPT ![w] = p]
                /\ IF p \in used_ports[w]
                   THEN /\ pc' = [pc EXCEPT ![w] = "already_in_use"]
                        /\ UNCHANGED <<claim_files, n, used_ports, attempts,
                                       opens, first_attempt, created>>
                   ELSE /\ used_ports' = [used_ports EXCEPT
                               ![w] = used_ports_add(used_ports[w], p)]
                        /\ attempts' = [attempts EXCEPT ![w] = attempts[w] \cup {p}]
                        /\ opens' = [opens EXCEPT ![w] = opens[w] + 1]
                        /\ first_attempt' = [first_attempt EXCEPT
                               ![w] = IF opens[w] = 0 THEN p ELSE @]
                        /\ IF open_x(claim_files, p)
                           THEN /\ claim_files' = claim_files \cup {p}
                                /\ created' = [created EXCEPT
                                                  ![w] = created[w] \cup {p}]
                                /\ pc' = [pc EXCEPT ![w] = "claimed"]
                                /\ UNCHANGED n
                           ELSE /\ IF search_exhausted(n[w], config)
                                   THEN /\ pc' = [pc EXCEPT ![w] = "exhausted"]
                                        /\ UNCHANGED n
                                   ELSE /\ n' = [n EXCEPT ![w] = n[w] + 1]
                                        /\ UNCHANGED pc
                                /\ UNCHANGED <<claim_files, created>>
    /\ UNCHANGED <<os_used, port, config>>
    /\ UNCHANGED janitorVars
    /\ UNCHANGED connVars
    /\ UNCHANGED procVars

\* the part of the state the janitors do not touch
AllocUnused ==
    /\ claim_files = {}
    /\ os_used = {}
    /\ port = AnyPort
    /\ config = [port |-> AnyPort, port_search_count |-> 0]
    /\ pc = [w \in Workers |-> "loop"]
    /\ n = [w \in Workers |-> 0]
    /\ used_ports = [w \in Workers |-> {}]
    /\ pg_port = [w \in Workers |-> None]
    /\ excluded = [w \in Workers |-> {}]
    /\ attempts = [w \in Workers |-> {}]
    /\ opens = [w \in Workers |-> 0]
    /\ first_attempt = [w \in Workers |-> None]
    /\ created = [w \in Workers |-> {}]

AllocNext ==
    \E w \in Workers : ClaimPass(w)

AllocSpec == AllocInit /\ [][AllocNext]_vars

\* Allocation for a fixture that requests a port range.  Every worker is an
\* operating system process of its own and keeps running its loop.
RangeAllocInit ==
    /\ AllocInit
    /\ port.kind = "range"
    /\ config.port_search_count >= 1

FairRangeAllocSpec ==
    /\ RangeAllocInit
    /\ [][AllocNext]_vars
    /\ \A w \in Workers :
          WF_vars(ClaimPass(w))

\* The fixtures of a test run, each from its port claim to its end: after
\* the claim the fixture prepares its directories and starts the server
\* (which may fail), yields, and stops the server at teardown.  None of
\* these steps opens, rewrites or removes a file of the claim directory.
RunFixture(w) ==
    /\ pc[w] = "claimed"
    /\ \E started \in BOOLEAN :
          pc' = [pc EXCEPT ![w] = IF started THEN "yielded" ELSE "start_failed"]
    /\ UNCHANGED <<claim_files, os_used, port, config, n, used_ports, pg_port,
                   excluded, attempts, opens, first_attempt, created>>
    /\ UNCHANGED <<janitorVars, connVars, procVars>>

Teardown(w) ==
    /\ pc[w] = "yielded"
    /\ pc' = [pc EXCEPT ![w] = "stopped"]
    /\ UNCHANGED <<claim_files, os_used, port, config, n, used_ports, pg_port,
                   excluded, attempts, opens, first_attempt, created>>
    /\ UNCHANGED <<janitorVars, connVars, procVars>>

RunNext ==
    \E w \in Workers :
        \/ ClaimPass(w)
        \/ RunFixture(w)
        \/ Teardown(w)

\* the run's fixtures ask for a port of the fixture's argument; the
\* operating system holds none of the ports, and the claim directory is
\* empty or holds the file of port 1
RunInit ==
    /\ AllocInit
    /\ os_used = {}
    /\ port.kind # "default"
    /\ claim_files \subseteq {1}

RunSpec == RunInit /\ [][RunNext]_vars

(* ------------------------- allocation: claims -------------------------- *)
AttemptedPorts(w) == attempts[w]
CollidedPorts(w) == AttemptedPorts(w) \ created[w]
AllocTerminated(w) ==
    pc[w] \in {"claimed", "exhausted", "already_in_use", "cannot_select"}
RequestedPorts == ranges_to_set(port.ranges) \cup port.ports

\* C1: when several workers race for one port, at most one of them creates
\* the claim file postgresql-<port>.port, and after any attempt the file is
\* there; a worker ends up using a port only if it created that port's
\* claim file itself, so no two workers use the same port and a worker
\* that collided on a port never uses it.
C1_ExclusiveClaim ==
    /\ \A p \in Ports : Cardinality({ w \in Workers : p \in created[w] }) <= 1
    /\ \A w \in Workers : attempts[w] \subseteq claim_files
    /\ \A w \in Workers :
          pc[w] = "claimed" =>
              /\ pg_port[w] \in created[w]
              /\ pg_port[w] \notin CollidedPorts(w)
              /\ \A v \in Workers \ {w} :
                    pc[v] = "claimed" => pg_port[v] # pg_port[w]

\* two workers tried the same port: one created the file, the other collided
C1_Witness ==
    \E w, v \in Workers : \E p \in Ports :
        /\ w # v
        /\ pc[w] = "claimed" /\ pg_port[w] = p /\ p \in created[w]
        /\ p \in CollidedPorts(v)
        /\ AllocTerminated(v)

\* C2: whatever the shape of the port request and whatever the excluded
\* ports, the port _pg_port returns is not one of the excluded ports.
C2_SelectedPortNotExcluded ==
    \A w \in Workers : pg_port[w] # None => pg_port[w] \notin excluded[w]

\* C3: one allocation calls open("x") on a claim file at most
\* port_search_count times (stated for a positive port_search_count).
C3_AttemptsWithinSearchCount ==
    \A w \in Workers :
        config.port_search_count >= 1 =>
            opens[w] <= config.port_search_count

\* C4: when the allocation gives up because the search count is used up,
\* the ports its error names (used_ports) are exactly the ports on which a
\* claim was attempted.
C4_ExhaustedNamesTriedPorts ==
    \A w \in Workers :
        pc[w] = "exhausted" => used_ports[w] = AttemptedPorts(w)

C4_Witness ==
    \E w \in Workers :
        /\ pc[w] = "exhausted"
        /\ Cardinality(AttemptedPorts(w)) >= 2

\* the first port w tried is held by another worker's claim file
FirstCandidateCollided(w) ==
    /\ port.kind = "range"
    /\ opens[w] >= 1
    /\ \E v \in Workers \ {w} : first_attempt[w] \in created[v]
UnclaimedFreePortInRange ==
    \E q \in RequestedPorts : q \notin claim_files /\ q \notin os_used

\* C5 as stated: a worker whose first candidate of a range collided, with
\* port_search_count >= 1 and a free unclaimed port left in the range, does
\* not fail; it claims a port of the range other than the collided one.
C5_RetryAlwaysClaims ==
    \A w \in Workers :
        ( /\ FirstCandidateCollided(w)
          /\ config.port_search_count >= 1
          /\ UnclaimedFreePortInRange
          /\ AllocTerminated(w) )
        => ( /\ pc[w] = "claimed"
             /\ pg_port[w] \in RequestedPorts
             /\ pg_port[w] # first_attempt[w] )

\* C5, amended: the same, when in addition the ports of the range whose
\* claim files others hold are no more than port_search_count (which makes
\* port_search_count >= 1); and every worker's allocation comes to an end.
C5_RetryClaimsWithinBudgetInv ==
    \A w \in Workers :
        ( /\ FirstCandidateCollided(w)
          /\ Cardinality((claim_files \ created[w]) \cap RequestedPorts)
                <= config.port_search_count
          /\ UnclaimedFreePortInRange
          /\ AllocTerminated(w) )
        => ( /\ pc[w] = "claimed"
             /\ pg_port[w] \in RequestedPorts
             /\ pg_port[w] # first_attempt[w] )

C5_RetryClaimsWithinBudget ==
    /\ []C5_RetryClaimsWithinBudgetInv
    /\ \A w \in Workers : <>AllocTerminated(w)

C5_Witness ==
    \E w \in Workers :
        /\ FirstCandidateCollided(w)
        /\ Cardinality((claim_files \ created[w]) \cap RequestedPorts)
              <= config.port_search_count
        /\ UnclaimedFreePortInRange
        /\ pc[w] = "claimed"
        /\ opens[w] >= 2

\* C32: no step removes or rewrites a claim file - the set of claim files
\* only grows, and a claim file is created only for a port that has none -
\* so a port is claimed by at most one fixture of the run, also after that
\* fixture's server failed to start or was stopped.
C32_ClaimFilesOnlyGrow ==
    [][/\ claim_files \subseteq claim_files'
       /\ \A w \in Workers :
             /\ created[w] \subseteq created'[w]
             /\ (created'[w] \ created[w]) \cap claim_files = {}
             /\ (created'[w] \ created[w]) \subseteq claim_files'
       /\ \A w \in Workers :
             pc[w] \in {"start_failed", "stopped"} =>
                /\ created[w] \subseteq claim_files'
                /\ \A v \in Workers \ {w} :
                      (created'[v] \ created[v]) \cap created[w] = {}]_vars

\* a fixture's server failed to start, or was stopped, and another fixture
\* that tried the port afterwards collided on it
C32_Witness ==
    \E w, v \in Workers :
        /\ w # v
        /\ pc[w] \in {"start_failed", "stopped"}
        /\ created[w] # {}
        /\ created[w] \subseteq CollidedPorts(v)
        /\ created[w] \subseteq claim_files

\* the fixed port the fixture asks for, by its argument or by the
\* configuration; None when it asks for something else
FixedRequest ==
    LET request == IF port.kind = "default" THEN config.port ELSE port
    IN  IF request.kind = "fixed" THEN request.port ELSE None

\* worker w asked for a fixed port, found its claim file there, and is done
FixedPortCollided(w) ==
    /\ FixedRequest # None
    /\ AllocTerminated(w)
    /\ FixedRequest \notin created[w]

\* C38 as stated: an allocation of a fixed port whose claim file exists
\* makes one claim attempt, on that port, and fails with the "already in
\* use" PortForException, never with the budget-exhausted one.
C38_FixedPortCollisionNotExhausted ==
    \A w \in Workers :
        FixedPortCollided(w) =>
            /\ opens[w] = 1
            /\ attempts[w] = {FixedRequest}
            /\ pc[w] = "already_in_use"

\* C38, amended: an allocation of a fixed port whose claim file exists makes
\* one claim attempt, on that port.  With port_search_count >= 1 the
\* collision takes one unit of the budget, the next selection returns the
\* same port, and the allocation fails with the "already in use"
\* PortForException; with port_search_count = 0 the collision itself ends
\* the allocation with the budget-exhausted PortForException.
C38_FixedPortCollisionFails ==
    \A w \in Workers :
        FixedPortCollided(w) =>
            /\ opens[w] = 1
            /\ attempts[w] = {FixedRequest}
            /\ used_ports[w] = {FixedRequest}
            /\ IF config.port_search_count >= 1
               THEN pc[w] = "already_in_use" /\ n[w] = 1
                    /\ pg_port[w] = FixedRequest
               ELSE pc[w] = "exhausted" /\ n[w] = 0

\* a fixed port's claim file was there, and with a budget left the
\* allocation failed on the port's second selection
C38_Witness ==
    \E w \in Workers :
        /\ FixedPortCollided(w)
        /\ config.port_search_count >= 1
        /\ pc[w] = "already_in_use"
        /\ FixedRequest \in claim_files

(* ------------------------------ janitor.py ----------------------------- *)
\* The administrative statements, as janitor.py writes them.
\*   CREATE DATABASE "<db>" WITH is_template = true;
CreateTemplateStmt(db) == [kind |-> "create_template", db |-> db, template |-> NoName]
\*   CREATE DATABASE "<db>";
CreateStmt(db) == [kind |-> "create", db |-> db, template |-> NoName]
\*   CREATE DATABASE "<db>" TEMPLATE "<template>";
CreateFromStmt(db, template) == [kind |-> "create_from", db |-> db, template |-> template]
\*   ALTER DATABASE "<db>" with is_template false;
NotTemplateStmt(db) == [kind |-> "not_template", db |-> db, template |-> NoName]
\*   DROP DATABASE IF EXISTS "<db>";
DropIfExistsStmt(db) == [kind |-> "drop_if_exists", db |-> db, template |-> NoName]

\*   ALTER DATABASE "<dbname>" with allow_connections false;
_dont_datallowconn(dbname) ==
    [kind |-> "disallow_conn", db |-> dbname, template |-> NoName]

\*   SELECT pg_terminate_backend(pg_stat_activity.pid) FROM pg_stat_activity
\*   WHERE pg_stat_activity.datname = <dbname>;
_terminate_connection(dbname) ==
    [kind |-> "terminate", db |-> dbname, template |-> NoName]

\* Python's truth value of a name: None and "" are false
Falsy(name) == name \in {NoName, ""}

\* (mutant) a constructor without the test
janitor_accepts_anything(dbname, template_dbname) == TRUE

\* the constructor's test: `if not (dbname or template_dbname): raise ValueError`
janitor_accepts(dbname, template_dbname) ==
    ~(Falsy(dbname) /\ Falsy(template_dbname))

\* the argument pairs the constructor accepts, of the names the model uses
JanitorArgs ==
    { a \in [dbname : {NoName, "db"}, template_dbname : {NoName, "tpl"}] :
        janitor_accepts(a.dbname, a.template_dbname) }

is_template(self) == self.dbname = NoName

\* (mutant) init() that clones nothing: the plain CREATE DATABASE for a clone
init_without_template(self) ==
    IF is_template(self)
    THEN << CreateTemplateStmt(self.template_dbname) >>
    ELSE IF self.template_dbname = NoName
         THEN << CreateStmt(self.dbname) >>
         ELSE << _terminate_connection(self.template_dbname),
                 CreateStmt(self.dbname) >>

\* (mutant) init() that creates the clone before it terminates the backends
init_create_before_terminate(self) ==
    IF is_template(self)
    THEN << CreateTemplateStmt(self.template_dbname) >>
    ELSE IF self.template_dbname = NoName
         THEN << CreateStmt(self.dbname) >>
         ELSE << CreateFromStmt(self.dbname, self.template_dbname),
                 _terminate_connection(self.template_dbname) >>

\* DatabaseJanitor.init: the statements it executes, in order
init(self) ==
    IF is_template(self)
    THEN << CreateTemplateStmt(self.template_dbname) >>
    ELSE IF self.template_dbname = NoName
         THEN << CreateStmt(self.dbname) >>
         ELSE << _terminate_connection(self.template_dbname),
                 CreateFromStmt(self.dbname, self.template_dbname) >>

\* AsyncDatabaseJanitor.init
async_init(self) ==
    IF is_template(self)
    THEN << CreateTemplateStmt(self.template_dbname) >>
    ELSE IF self.template_dbname = NoName
         THEN << CreateStmt(self.dbname) >>
         ELSE << _terminate_connection(self.template_dbname),
                 CreateFromStmt(self.dbname, self.template_dbname) >>

\* (mutant) drop() that drops before it terminates the backends
drop_before_terminate(self) ==
    LET db_to_drop == IF is_template(self) THEN self.template_dbname
                                           ELSE self.dbname
    IN  << _dont_datallowconn(db_to_drop) >>
        \o (IF is_template(self) THEN << NotTemplateStmt(db_to_drop) >> ELSE << >>)
        \o << DropIfExistsStmt(db_to_drop), _terminate_connection(db_to_drop) >>

\* (mutant) drop() that stops before DROP DATABASE
drop_without_drop(self) ==
    LET db_to_drop == IF is_template(self) THEN self.template_dbname
                                           ELSE self.dbname
    IN  << _dont_datallowconn(db_to_drop), _terminate_connection(db_to_drop) >>
        \o (IF is_template(self) THEN << NotTemplateStmt(db_to_drop) >> ELSE << >>)

\* (mutant) drop() that leaves the database open to new connections
drop_without_disallow(self) ==
    LET db_to_drop == IF is_template(self) THEN self.template_dbname
                                           ELSE self.dbname
    IN  << _terminate_connection(db_to_drop) >>
        \o (IF is_template(self) THEN << NotTemplateStmt(db_to_drop) >> ELSE << >>)
        \o << DropIfExistsStmt(db_to_drop) >>

\* DatabaseJanitor.drop: the statements it executes, in order
drop(self) ==
    LET db_to_drop == IF is_template(self) THEN self.template_dbname
                                           ELSE self.dbname
    IN  << _dont_datallowconn(db_to_drop), _terminate_connection(db_to_drop) >>
        \o (IF is_template(self) THEN << NotTemplateStmt(db_to_drop) >> ELSE << >>)
        \o << DropIfExistsStmt(db_to_drop) >>

\* (mutant) an asynchronous drop() that does not terminate the backends
async_drop_without_terminate(self) ==
    LET db_to_drop == IF is_template(self) THEN self.template_dbname
                                           ELSE self.dbname
    IN  << _dont_datallowconn(db_to_drop) >>
        \o (IF is_template(self) THEN << NotTemplateStmt(db_to_drop) >> ELSE << >>)
        \o << DropIfExistsStmt(db_to_drop) >>

\* AsyncDatabaseJanitor.drop
async_drop(self) ==
    LET db_to_drop == IF is_template(self) THEN self.template_dbname
                                           ELSE self.dbname
    IN  << _dont_datallowconn(db_to_drop), _terminate_connection(db_to_drop) >>
        \o (IF is_template(self) THEN << NotTemplateStmt(db_to_drop) >> ELSE << >>)
        \o << DropIfExistsStmt(db_to_drop) >>

\* (mutant) load() that prefers the template whenever one is named
db_to_load_template_first(self) ==
    IF self.template_dbname # NoName THEN self.template_dbname ELSE self.dbname

\* load(): db_to_load = template_dbname if is_template() else dbname
db_to_load(self) == IF is_template(self) THEN self.template_dbname ELSE self.dbname

\* (mutant) load() that hands the loader the control database
loader_kwargs_control_db(self, dbname) ==
    [host |-> self.host, port |-> self.port, user |-> self.user,
     dbname |-> ControlDb, password |-> self.password]

\* the keyword arguments load() calls the loader with
loader_kwargs(self, dbname) ==
    [host |-> self.host, port |-> self.port, user |-> self.user,
     dbname |-> dbname, password |-> self.password]

\* psycopg.connect(dbname=dbname, user=self.user, password=self.password,
\*                 host=self.host, port=self.port)
connect(self, dbname) ==
    [open |-> TRUE, dbname |-> dbname, user |-> self.user,
     password |-> self.password, host |-> self.host, port |-> self.port,
     isolation_level |-> NoLevel, autocommit |-> FALSE, cursor |-> "none"]

\* (mutant) cursor() that leaves the connection in its transactional default
cursor_without_autocommit(self, dbname) ==
    LET c == connect(self, dbname)
    IN  IF ~is_isolation_level(self.isolation_level)
        THEN [raised |-> TRUE, conn |-> c]
        ELSE [raised |-> FALSE,
              conn |-> [c EXCEPT !.isolation_level = self.isolation_level,
                                 !.cursor = "open"]]

\* DatabaseJanitor.cursor from the connection made to the yield: whether an
\* exception left it, and the connection as it then is.  Nothing closes the
\* connection when conn.isolation_level = ... raises: the try starts later.
cursor(self, dbname) ==
    LET c == connect(self, dbname)
    IN  IF ~is_isolation_level(self.isolation_level)
        THEN [raised |-> TRUE, conn |-> c]
        ELSE [raised |-> FALSE,
              conn |-> [c EXCEPT !.isolation_level = self.isolation_level,
                                 !.autocommit = TRUE,
                                 !.cursor = "open"]]

\* AsyncDatabaseJanitor.cursor: set_isolation_level and set_autocommit are
\* awaited before `async with conn.cursor()` and its try
async_cursor(self, dbname) ==
    LET c == connect(self, dbname)
    IN  IF ~is_isolation_level(self.isolation_level)
        THEN [raised |-> TRUE, conn |-> c]
        ELSE [raised |-> FALSE,
              conn |-> [c EXCEPT !.isolation_level = self.isolation_level,
                                 !.autocommit = TRUE,
                                 !.cursor = "open"]]

\* finally: cur.close(); conn.close()
cursor_exit(c) == [c EXCEPT !.cursor = "closed", !.open = FALSE]

\* finally: await conn.close(), then the exit of `async with conn.cursor()`
async_cursor_exit(c) == [c EXCEPT !.open = FALSE, !.cursor = "closed"]

CursorOf(j) ==
    IF j = "DatabaseJanitor" THEN cursor(ident[j], ControlDb)
                             ELSE async_cursor(ident[j], ControlDb)
CursorExitOf(j, c) ==
    IF j = "DatabaseJanitor" THEN cursor_exit(c) ELSE async_cursor_exit(c)

\* the statements of method m of janitor j
Statements(j, m) ==
    CASE m = "init" /\ j = "DatabaseJanitor"      -> init(jan[j])
      [] m = "init" /\ j = "AsyncDatabaseJanitor" -> async_init(jan[j])
      [] m = "drop" /\ j = "DatabaseJanitor"      -> drop(jan[j])
      [] m = "drop" /\ j = "AsyncDatabaseJanitor" -> async_drop(jan[j])
      [] OTHER -> << >>

(* ------------------- the server's answer to cur.execute ----------------- *)
NewDatabase(template_flag, content) ==
    [exists |-> TRUE, is_template |-> template_flag, allow_conn |-> TRUE,
     content |-> content, sessions |-> 0]

\* a quoted name of no characters is a syntax error; pg_terminate_backend
\* takes the name as a parameter and finds no backend
EmptyIdentifier(st) ==
    /\ st.kind # "terminate"
    /\ (st.db = "" \/ (st.kind = "create_from" /\ st.template = ""))

\* CREATE DATABASE and DROP DATABASE cannot run inside a transaction block
InTransactionBlock(c, st) ==
    /\ ~c.autocommit
    /\ st.kind \in {"create_template", "create", "create_from", "drop_if_exists"}

\* cur.execute raises: the name is taken, the source is missing or in use,
\* the database to alter is missing, the database to drop is a template or
\* has sessions.  pg_terminate_backend and DROP ... IF EXISTS of a missing
\* database raise nothing.
ExecuteRaises(st, d) ==
    CASE st.kind \in {"create_template", "create"} -> d[st.db].exists
      [] st.kind = "create_from" ->
            \/ d[st.db].exists
            \/ ~d[st.template].exists
            \/ d[st.template].sessions > 0
      [] st.kind \in {"disallow_conn", "not_template"} -> ~d[st.db].exists
      [] st.kind = "terminate" -> FALSE
      [] st.kind = "drop_if_exists" ->
            d[st.db].exists /\ (d[st.db].is_template \/ d[st.db].sessions > 0)

\* the databases after cur.execute returned
ExecuteEffect(st, d) ==
    CASE st.kind = "create_template" -> [d EXCEPT ![st.db] = NewDatabase(TRUE, 0)]
      [] st.kind = "create" -> [d EXCEPT ![st.db] = NewDatabase(FALSE, 0)]
      [] st.kind = "create_from" ->
            [d EXCEPT ![st.db] = NewDatabase(FALSE, d[st.template].content)]
      [] st.kind = "disallow_conn" -> [d EXCEPT ![st.db].allow_conn = FALSE]
      [] st.kind = "not_template" -> [d EXCEPT ![st.db].is_template = FALSE]
      [] st.kind = "terminate" ->
            IF st.db \in DOMAIN d THEN [d EXCEPT ![st.db].sessions = 0] ELSE d
      [] st.kind = "drop_if_exists" -> [d EXCEPT ![st.db] = Absent]

(* ----------------------------- janitor steps --------------------------- *)
\* databases a server holds when the janitors start: none, or ones an earlier
\* run left behind
LeftBehind ==
    { d \in [DbNames -> {Absent, NewDatabase(FALSE, 0), NewDatabase(TRUE, 0)}] :
        /\ ~d["db"].is_template
        /\ d["tpl"].exists => d["tpl"].is_template }

\* no method has been called on any janitor
NothingCalled ==
    /\ op = [j \in Janitors |-> "none"]
    /\ running = [j \in Janitors |-> FALSE]
    /\ ip = [j \in Janitors |-> 0]
    /\ issued = [j \in Janitors |-> <<>>]
    /\ outcome = [j \in Janitors |-> "none"]
    /\ after_init = [j \in Janitors |-> FALSE]
    /\ calls = 0
    /\ missing_at_drop = [j \in Janitors |-> FALSE]
    /\ cloned_from = [j \in Janitors |-> -1]

JanitorInit ==
    /\ AllocUnused
    /\ ProcUnused
    /\ dbs \in LeftBehind
    /\ jan \in [Janitors -> JanitorArgs]
    /\ NothingCalled
    /\ ConnIdle
    /\ ident = [j \in Janitors |-> ConnIdentity(j, NoLevel)]

\* DatabaseJanitor(...) / AsyncDatabaseJanitor(...): the constructor raises
\* ValueError, or the janitor exists with the names it was given
Construct(j) ==
    /\ constructed[j] = "no"
    /\ \E dbname \in {NoName, "", "db"}, template_dbname \in {NoName, "", "tpl"},
          level \in IsolationLevels :
          IF janitor_accepts(dbname, template_dbname)
          THEN /\ constructed' = [constructed EXCEPT ![j] = "yes"]
               /\ jan' = [jan EXCEPT ![j] = [dbname |-> dbname,
                                             template_dbname |-> template_dbname]]
               /\ ident' = [ident EXCEPT ![j] = ConnIdentity(j, level)]
          ELSE /\ constructed' = [constructed EXCEPT ![j] = "ValueError"]
               /\ UNCHANGED <<jan, ident>>
    /\ UNCHANGED <<reachable, conn, invoked, cycles>>
    /\ UNCHANGED <<dbs, op, running, ip, issued, outcome, after_init, calls,
                   missing_at_drop, cloned_from>>
    /\ UNCHANGED allocVars
    /\ UNCHANGED procVars

\* init() or drop() is called.  drop() asserts its target; then
\* `with self.cursor() as cur:` connects (TimeoutError of retry when the
\* server does not answer), configures the connection and yields the cursor
Call(j, m) ==
    /\ constructed[j] = "yes"
    /\ ~running[j]
    /\ calls < MaxCalls
    /\ calls' = calls + 1
    /\ after_init' = [after_init EXCEPT
          ![j] = op[j] = "init" /\ outcome[j] = "ok"]
    /\ op' = [op EXCEPT ![j] = m]
    /\ ip' = [ip EXCEPT ![j] = 0]
    /\ issued' = [issued EXCEPT ![j] = <<>>]
    /\ invoked' = [invoked EXCEPT ![j] = <<>>]
    /\ LET db_to_drop == db_to_load(jan[j])
           cur == CursorOf(j)
       IN  /\ missing_at_drop' = [missing_at_drop EXCEPT
                 ![j] = /\ m = "drop"
                        /\ db_to_drop \in DbNames
                        /\ ~dbs[db_to_drop].exists]
           /\ IF (m = "drop" /\ Falsy(db_to_drop)) \/ ~reachable
              THEN /\ outcome' = [outcome EXCEPT ![j] = "error"]
                   /\ running' = [running EXCEPT ![j] = FALSE]
                   /\ UNCHANGED conn
              ELSE /\ conn' = [conn EXCEPT ![j] = cur.conn]
                   /\ running' = [running EXCEPT ![j] = ~cur.raised]
                   /\ outcome' = [outcome EXCEPT
                         ![j] = IF cur.raised THEN "error" ELSE "none"]
    /\ UNCHANGED <<dbs, jan, cloned_from>>
    /\ UNCHANGED <<reachable, constructed, ident, cycles>>
    /\ UNCHANGED allocVars
    /\ UNCHANGED procVars

CallInit(j) == Call(j, "init")
CallDrop(j) == Call(j, "drop")

\* the next cur.execute of the running method; an exception, or the end of
\* the with block, closes the cursor and the connection and ends the method
Execute(j) ==
    /\ running[j]
    /\ op[j] \in {"init", "drop"}
    /\ LET stmts == Statements(j, op[j])
           st == stmts[ip[j] + 1]
       IN  /\ issued' = [issued EXCEPT ![j] = Append(issued[j], st)]
           /\ IF \/ EmptyIdentifier(st)
                 \/ InTransactionBlock(conn[j], st)
                 \/ ExecuteRaises(st, dbs)
              THEN /\ outcome' = [outcome EXCEPT ![j] = "error"]
                   /\ running' = [running EXCEPT ![j] = FALSE]
                   /\ conn' = [conn EXCEPT ![j] = CursorExitOf(j, conn[j])]
                   /\ UNCHANGED <<dbs, ip, cloned_from, cycles>>
              ELSE /\ dbs' = ExecuteEffect(st, dbs)
                   /\ ip' = [ip EXCEPT ![j] = ip[j] + 1]
                   /\ cloned_from' = [cloned_from EXCEPT
                         ![j] = IF op[j] = "init" /\ ~is_template(jan[j])
                                   /\ jan[j].template_dbname # NoName
                                   /\ ip[j] + 1 = Len(stmts)
                                THEN dbs[jan[j].template_dbname].content
                                ELSE @]
                   /\ IF ip[j] + 1 = Len(stmts)
                      THEN /\ outcome' = [outcome EXCEPT ![j] = "ok"]
                           /\ running' = [running EXCEPT ![j] = FALSE]
                           /\ conn' = [conn EXCEPT
                                 ![j] = CursorExitOf(j, conn[j])]
                           /\ cycles' = [cycles EXCEPT
                                 ![j] = IF op[j] = "drop" /\ after_init[j]
                                        THEN @ + 1 ELSE @]
                      ELSE UNCHANGED <<outcome, running, conn, cycles>>
    /\ UNCHANGED <<jan, op, after_init, calls, missing_at_drop>>
    /\ UNCHANGED <<reachable, constructed, ident, invoked>>
    /\ UNCHANGED allocVars
    /\ UNCHANGED procVars

\* load(directive): the loader is called with the janitor's parameters and
\* db_to_load; it connects to that database and writes what it likes
Load(j) ==
    /\ constructed[j] = "yes"
    /\ ~running[j]
    /\ calls < MaxCalls
    /\ calls' = calls + 1
    /\ after_init' = [after_init EXCEPT
          ![j] = op[j] = "init" /\ outcome[j] = "ok"]
    /\ op' = [op EXCEPT ![j] = "load"]
    /\ ip' = [ip EXCEPT ![j] = 0]
    /\ issued' = [issued EXCEPT ![j] = <<>>]
    /\ LET target == db_to_load(jan[j])
           kwargs == loader_kwargs(ident[j], target)
       IN  /\ invoked' = [invoked EXCEPT ![j] = << kwargs >>]
           /\ IF /\ reachable
                 /\ kwargs.dbname \in DbNames
                 /\ dbs[kwargs.dbname].exists
                 /\ dbs[kwargs.dbname].allow_conn
              THEN /\ \E c \in 0..MaxRows :
                         dbs' = [dbs EXCEPT ![kwargs.dbname].content = c]
                   /\ outcome' = [outcome EXCEPT ![j] = "ok"]
              ELSE /\ outcome' = [outcome EXCEPT ![j] = "error"]
                   /\ UNCHANGED dbs
    /\ UNCHANGED <<jan, running, missing_at_drop, cloned_from>>
    /\ UNCHANGED <<reachable, constructed, ident, conn, cycles>>
    /\ UNCHANGED allocVars
    /\ UNCHANGED procVars

\* a test's client connects to a database that exists and allows connections
ClientConnect(d) ==
    /\ dbs[d].exists /\ dbs[d].allow_conn
    /\ dbs[d].sessions < MaxSessions
    /\ dbs' = [dbs EXCEPT ![d].sessions = @ + 1]
    /\ UNCHANGED <<jan, op, running, ip, issued, outcome, after_init, calls,
                   missing_at_drop, cloned_from>>
    /\ UNCHANGED connVars
    /\ UNCHANGED allocVars
    /\ UNCHANGED procVars

ClientDisconnect(d) ==
    /\ dbs[d].sessions > 0
    /\ dbs' = [dbs EXCEPT ![d].sessions = @ - 1]
    /\ UNCHANGED <<jan, op, running, ip, issued, outcome, after_init, calls,
                   missing_at_drop, cloned_from>>
    /\ UNCHANGED connVars
    /\ UNCHANGED allocVars
    /\ UNCHANGED procVars

\* a connected client inserts or truncates
ClientWrite(d) ==
    /\ dbs[d].sessions > 0
    /\ \E c \in 0..MaxRows :
          /\ c # dbs[d].content
          /\ dbs' = [dbs EXCEPT ![d].content = c]
    /\ UNCHANGED <<jan, op, running, ip, issued, outcome, after_init, calls,
                   missing_at_drop, cloned_from>>
    /\ UNCHANGED connVars
    /\ UNCHANGED allocVars
    /\ UNCHANGED procVars

JanitorNext ==
    \/ \E j \in Janitors : CallInit(j)
    \/ \E j \in Janitors : CallDrop(j)
    \/ \E j \in Janitors : Execute(j)
    \/ \E j \in Janitors : Load(j)
    \/ \E d \in DbNames : ClientConnect(d)
    \/ \E d \in DbNames : ClientDisconnect(d)
    \/ \E d \in DbNames : ClientWrite(d)

JanitorSpec == JanitorInit /\ [][JanitorNext]_vars

\* Janitors from their construction on, with any isolation_level, against a
\* server that answers or does not.
JanitorApiInit ==
    /\ AllocUnused
    /\ ProcUnused
    /\ dbs \in LeftBehind
    /\ jan = [j \in Janitors |-> [dbname |-> NoName, template_dbname |-> NoName]]
    /\ NothingCalled
    /\ reachable \in BOOLEAN
    /\ constructed = [j \in Janitors |-> "no"]
    /\ ident = [j \in Janitors |-> ConnIdentity(j, NoLevel)]
    /\ conn = [j \in Janitors |-> NoConn]
    /\ invoked = [j \in Janitors |-> <<>>]
    /\ cycles = [j \in Janitors |-> 0]

JanitorApiNext ==
    \/ \E j \in Janitors : Construct(j)
    \/ \E j \in Janitors : CallInit(j)
    \/ \E j \in Janitors : CallDrop(j)
    \/ \E j \in Janitors : Execute(j)
    \/ \E j \in Janitors : Load(j)

JanitorApiSpec == JanitorApiInit /\ [][JanitorApiNext]_vars

\* One janitor, synchronous or asynchronous, and the clients of the tests:
\* the janitor's statements interleave with the clients' connections.
SoloJanitorInit ==
    /\ AllocUnused
    /\ ProcUnused
    /\ dbs \in LeftBehind
    /\ NothingCalled
    /\ reachable = TRUE
    /\ \E j \in Janitors, args \in JanitorArgs :
          /\ constructed = [k \in Janitors |-> IF k = j THEN "yes" ELSE "no"]
          /\ jan = [k \in Janitors |->
                       IF k = j THEN args
                       ELSE [dbname |-> NoName, template_dbname |-> NoName]]
    /\ ident = [j \in Janitors |-> ConnIdentity(j, NoLevel)]
    /\ conn = [j \in Janitors |-> NoConn]
    /\ invoked = [j \in Janitors |-> <<>>]
    /\ cycles = [j \in Janitors |-> 0]

SoloJanitorSpec == SoloJanitorInit /\ [][JanitorNext]_vars

(* --------------------------- janitor: claims --------------------------- *)
PlainJanitor(j) == jan[j].dbname # NoName /\ jan[j].template_dbname = NoName
TemplateJanitor(j) == jan[j].dbname = NoName
CloneJanitor(j) == jan[j].dbname # NoName /\ jan[j].template_dbname # NoName
Returned(j, m) == op[j] = m /\ ~running[j] /\ outcome[j] = "ok"
Kinds(stmts) == [i \in 1..Len(stmts) |-> stmts[i].kind]
IsPrefix(s, t) == Len(s) <= Len(t) /\ \A i \in 1..Len(s) : s[i] = t[i]

\* the order the drop statements are to have
DropOrder(j) ==
    IF TemplateJanitor(j)
    THEN << "disallow_conn", "terminate", "not_template", "drop_if_exists" >>
    ELSE << "disallow_conn", "terminate", "drop_if_exists" >>
DropTarget(j) ==
    IF TemplateJanitor(j) THEN jan[j].template_dbname ELSE jan[j].dbname

\* C6: the statements a drop() (of either class) has issued are, at every
\* moment, the first ones of: disallow connections, terminate backends,
\* clear is_template (there exactly for a template janitor), DROP DATABASE
\* IF EXISTS; all of them name the resolved target; a drop() that returned
\* has issued them all.
C6_DropStatementOrder ==
    \A j \in Janitors :
        op[j] = "drop" =>
            /\ IsPrefix(Kinds(issued[j]), DropOrder(j))
            /\ \A i \in 1..Len(issued[j]) : issued[j][i].db = DropTarget(j)
            /\ Returned(j, "drop") => Len(issued[j]) = Len(DropOrder(j))

\* a template janitor of one class and a plain janitor of the other have
\* both gone through a whole drop()
C6_Witness ==
    /\ TemplateJanitor("DatabaseJanitor")
    /\ Returned("DatabaseJanitor", "drop")
    /\ Len(issued["DatabaseJanitor"]) = 4
    /\ PlainJanitor("AsyncDatabaseJanitor")
    /\ Returned("AsyncDatabaseJanitor", "drop")
    /\ Len(issued["AsyncDatabaseJanitor"]) = 3

\* C7: when the drop() that follows a returned init() of a plain janitor
\* returns, no database named dbname exists.
C7_InitThenDropLeavesNoDatabase ==
    [][ \A j \in Janitors :
          ( /\ PlainJanitor(j)
            /\ after_init[j]
            /\ op[j] = "drop" /\ running[j]
            /\ ~running'[j] /\ outcome'[j] = "ok" )
          => ~dbs'[jan[j].dbname].exists ]_vars

C7_Witness ==
    \E j \in Janitors :
        /\ PlainJanitor(j)
        /\ after_init[j]
        /\ Returned(j, "drop")
        /\ ~dbs[jan[j].dbname].exists

\* C8: a drop() called while its target database does not exist returns
\* without an error.
C8_DropOfMissingDatabaseReturns ==
    \A j \in Janitors :
        (op[j] = "drop" /\ ~running[j] /\ missing_at_drop[j])
            => outcome[j] = "ok"

\* the statements init() is to issue, by role
InitOrder(j) ==
    IF TemplateJanitor(j)
    THEN << [kind |-> "create_template", db |-> jan[j].template_dbname,
             template |-> NoName] >>
    ELSE IF PlainJanitor(j)
         THEN << [kind |-> "create", db |-> jan[j].dbname, template |-> NoName] >>
         ELSE << [kind |-> "terminate", db |-> jan[j].template_dbname,
                  template |-> NoName],
                 [kind |-> "create_from", db |-> jan[j].dbname,
                  template |-> jan[j].template_dbname] >>
Creates(stmts) ==
    { i \in 1..Len(stmts) :
        stmts[i].kind \in {"create_template", "create", "create_from"} }

\* C9: the statements an init() (of either class) has issued are the first
\* ones of its role's list - template: CREATE ... WITH is_template = true;
\* plain: CREATE; clone: terminate the template's backends, then CREATE ...
\* TEMPLATE - and an init() that has ended has issued the whole list, with
\* its one CREATE DATABASE.
C9_InitCreatesByRole ==
    \A j \in Janitors :
        op[j] = "init" =>
            /\ IsPrefix(issued[j], InitOrder(j))
            /\ ~running[j] =>
                  /\ issued[j] = InitOrder(j)
                  /\ Cardinality(Creates(issued[j])) = 1

C9_Witness ==
    /\ CloneJanitor("DatabaseJanitor")
    /\ Returned("DatabaseJanitor", "init")
    /\ Len(issued["DatabaseJanitor"]) = 2
    /\ TemplateJanitor("AsyncDatabaseJanitor")
    /\ Returned("AsyncDatabaseJanitor", "init")

\* C10: the step in which a clone janitor's init() returns leaves dbname
\* with the content the template had in that step; and a step that changes
\* the template's content leaves the clone as it was.
C10_CloneHasTemplateContentOfCloneTime ==
    [][ \A j \in Janitors :
          CloneJanitor(j) =>
            /\ ( /\ op[j] = "init" /\ running[j]
                 /\ ~running'[j] /\ outcome'[j] = "ok" )
               => ( /\ dbs'[jan[j].dbname].exists
                    /\ dbs'[jan[j].dbname].content
                         = dbs[jan[j].template_dbname].content )
            /\ ( /\ dbs[jan[j].dbname].exists
                 /\ dbs'[jan[j].template_dbname].content
                      # dbs[jan[j].template_dbname].content )
               => dbs'[jan[j].dbname] = dbs[jan[j].dbname] ]_vars

\* a clone made of a template that held rows still holds them after the
\* template's content has changed
C10_Witness ==
    \E j \in Janitors :
        /\ CloneJanitor(j)
        /\ Returned(j, "init")
        /\ cloned_from[j] >= 1
        /\ dbs[jan[j].dbname].exists
        /\ dbs[jan[j].dbname].content = cloned_from[j]
        /\ dbs[jan[j].template_dbname].content # cloned_from[j]

(* ------------------- janitor: template, cursor, load ------------------- *)
\* what a clone takes from the template: that it is there, is a template,
\* and its content
TemplateState(d) == << d["tpl"].exists, d["tpl"].is_template, d["tpl"].content >>

\* C11: a step that changes the template's existence, is_template flag or
\* content is a statement or a load of a janitor managing the template, or
\* a write of a client connected to the template - never a clone janitor's
\* init, load or drop, nor a write to the clone; and the step in which a
\* clone janitor's init() returns leaves the clone with the content the
\* template then has, in every cycle.
C11_TemplateUnchangedByClones ==
    [][ /\ TemplateState(dbs') # TemplateState(dbs) =>
              \/ \E j \in Janitors :
                    /\ TemplateJanitor(j)
                    /\ \/ Len(issued'[j]) = Len(issued[j]) + 1
                       \/ (op'[j] = "load" /\ calls' = calls + 1
                           /\ running' = running)
              \/ /\ dbs[ "tpl" ].sessions > 0
                 /\ dbs'[ "tpl" ].exists = dbs[ "tpl" ].exists
                 /\ dbs'[ "tpl" ].is_template = dbs[ "tpl" ].is_template
        /\ \A j \in Janitors :
              ( /\ CloneJanitor(j)
                /\ op[j] = "init" /\ running[j]
                /\ ~running'[j] /\ outcome'[j] = "ok" )
              => /\ TemplateState(dbs') = TemplateState(dbs)
                 /\ dbs'[jan[j].dbname].content
                      = dbs'[jan[j].template_dbname].content ]_vars

\* a clone janitor is through a whole init ... drop cycle and its next
\* init() has returned: the new clone holds the template's rows
C11_Witness ==
    \E j \in Janitors :
        /\ CloneJanitor(j)
        /\ cycles[j] >= 1
        /\ Returned(j, "init")
        /\ dbs[jan[j].template_dbname].content >= 1
        /\ dbs[jan[j].dbname].content = dbs[jan[j].template_dbname].content

\* C12: whenever no init() or drop() of a janitor is running, the connection
\* its cursor() opened, and the cursor, are closed - whether the method
\* returned or raised, in its body or while the connection was configured.
C12_NoConnectionLeftOpen ==
    \A j \in Janitors :
        ~running[j] => (~conn[j].open /\ conn[j].cursor # "open")

\* C13: the connection an init() or drop() has issued a statement over is
\* one to the control database postgres (not the target, not the template),
\* made with the janitor's user, password, host and port, with autocommit
\* on.
C13_StatementsOverControlDatabase ==
    \A j \in Janitors :
        (op[j] \in {"init", "drop"} /\ Len(issued[j]) >= 1) =>
            /\ conn[j].dbname = ControlDb
            /\ conn[j].dbname \notin {jan[j].dbname, jan[j].template_dbname}
            /\ conn[j].user = ident[j].user
            /\ conn[j].password = ident[j].password
            /\ conn[j].host = ident[j].host
            /\ conn[j].port = ident[j].port
            /\ conn[j].autocommit

\* the two janitors, with their different identities, are both in the
\* middle of a method, one statement executed each
C13_Witness ==
    \A j \in Janitors :
        /\ running[j]
        /\ Len(issued[j]) >= 1
        /\ conn[j].open /\ conn[j].autocommit
        /\ conn[j].user = ident[j].user

\* C14: a construction ends with a janitor or with ValueError; a janitor
\* that exists has a non-empty dbname or template_dbname, and is_template()
\* holds of it exactly when its dbname is None; after ValueError there is
\* no janitor: no name was stored and no method ever runs.
C14_ConstructedHasAName ==
    \A j \in Janitors :
        /\ constructed[j] \in {"no", "yes", "ValueError"}
        /\ constructed[j] = "yes" =>
              /\ ~Falsy(jan[j].dbname) \/ ~Falsy(jan[j].template_dbname)
              /\ is_template(jan[j]) <=> (jan[j].dbname = NoName)
              /\ is_template(jan[j]) => ~Falsy(jan[j].template_dbname)
        /\ constructed[j] # "yes" =>
              /\ jan[j] = [dbname |-> NoName, template_dbname |-> NoName]
              /\ op[j] = "none"

\* one construction was refused; the other made a janitor with an empty
\* dbname beside a template name, which is not a template janitor
C14_Witness ==
    \E j, k \in Janitors :
        /\ constructed[j] = "ValueError"
        /\ constructed[k] = "yes"
        /\ jan[k].dbname = ""
        /\ ~is_template(jan[k])

\* the keyword arguments load() of janitor j is to call the loader with
ExpectedLoaderCall(j) ==
    [host |-> ident[j].host, port |-> ident[j].port, user |-> ident[j].user,
     dbname |-> IF jan[j].dbname = NoName THEN jan[j].template_dbname
                                          ELSE jan[j].dbname,
     password |-> ident[j].password]

\* C15: a load() has called the loader once, with the janitor's host, port,
\* user and password and with the template name for a template janitor,
\* the dbname otherwise; no other method calls a loader; load() issues no
\* statement, and no step that ends in a load() changes the janitor's
\* administrative connection.
C15_LoadCallsLoaderOnceInv ==
    \A j \in Janitors :
        /\ op[j] = "load" =>
              /\ invoked[j] = << ExpectedLoaderCall(j) >>
              /\ issued[j] = << >>
              /\ ~running[j]
        /\ op[j] # "load" => invoked[j] = << >>

C15_LoadCallsLoaderOnce ==
    /\ []C15_LoadCallsLoaderOnceInv
    /\ [][ \A j \in Janitors : op'[j] = "load" => conn'[j] = conn[j] ]_vars

\* a template janitor and a janitor with a dbname have both loaded
C15_Witness ==
    \E j, k \in Janitors :
        /\ TemplateJanitor(j) /\ op[j] = "load" /\ outcome[j] = "ok"
        /\ invoked[j][1].dbname = "tpl"
        /\ ~TemplateJanitor(k) /\ op[k] = "load" /\ outcome[k] = "ok"
        /\ invoked[k][1].dbname = "db"

(* -------------------------------- retry -------------------------------- *)
\* retry(operation, timeout, retryable_error): what one invocation of the
\* operation can do
ResultValues == {"res_a", "res_b"}
RetryableErrors == {"err_a", "err_b"}
OtherErrors == {"fatal"}
Succeeds(v) == [kind |-> "ok", value |-> v]
RaisesRetryable(e) == [kind |-> "retryable", value |-> e]
RaisesOther(e) == [kind |-> "other", value |-> e]
OperationOutcomes ==
    { Succeeds(v) : v \in ResultValues }
    \cup { RaisesRetryable(e) : e \in RetryableErrors }
    \cup { RaisesOther(e) : e \in OtherErrors }

\* the interval retry sleeps between two invocations
SleepInterval == 1

\* (mutant) retry that treats every error as the retryable one
retry_after_other_retried(res, elapsed, timeout) ==
    IF res.kind = "ok" THEN "returned"
    ELSE IF elapsed > timeout THEN "TimeoutError"
    ELSE "sleep"

\* (mutant) retry that never gives up on the retryable error
retry_after_no_timeout(res, elapsed, timeout) ==
    IF res.kind = "ok" THEN "returned"
    ELSE IF res.kind = "other" THEN "propagated"
    ELSE "sleep"

\* (mutant) retry that goes on after a success while there is time
retry_after_success_retried(res, elapsed, timeout) ==
    IF res.kind = "other" THEN "propagated"
    ELSE IF elapsed > timeout
         THEN (IF res.kind = "ok" THEN "returned" ELSE "TimeoutError")
         ELSE "sleep"

\* where retry goes after one invocation: it returns the result; a
\* non-matching error propagates; a matching one is retried after a sleep
\* unless the timeout has elapsed
retry_after(res, elapsed, timeout) ==
    IF res.kind = "ok" THEN "returned"
    ELSE IF res.kind = "other" THEN "propagated"
    ELSE IF elapsed > timeout THEN "TimeoutError"
    ELSE "sleep"

\* the error the TimeoutError wraps: the last one observed
wrapped_error(log) == log[Len(log)].value

\* retry is called
RetryCall(timeout) ==
    /\ r_pc' = "invoke"
    /\ r_timeout' = timeout
    /\ r_elapsed' = 0
    /\ r_log' = << >>
    /\ r_result' = "none"
    /\ r_raised' = [error |-> "none", cause |-> "none"]

\* retry invokes the operation once
RetryInvoke(outcomes) ==
    /\ r_pc = "invoke"
    /\ \E o \in outcomes, d \in 0..MaxOpTime :
          LET elapsed == r_elapsed + d
              log == Append(r_log, o)
              next == retry_after(o, elapsed, r_timeout)
          IN  /\ r_elapsed' = elapsed
              /\ r_log' = log
              /\ r_pc' = next
              /\ r_result' = IF next = "returned" THEN o.value ELSE r_result
              /\ r_raised' =
                    CASE next = "TimeoutError" ->
                           [error |-> "TimeoutError", cause |-> wrapped_error(log)]
                      [] next = "propagated" ->
                           [error |-> o.value, cause |-> "none"]
                      [] OTHER -> r_raised
    /\ UNCHANGED r_timeout

\* retry sleeps before the next invocation
RetrySleep ==
    /\ r_pc = "sleep"
    /\ r_pc' = "invoke"
    /\ r_elapsed' = r_elapsed + SleepInterval
    /\ UNCHANGED <<r_timeout, r_log, r_result, r_raised>>

ExecutorUnused ==
    /\ ex_state = "Stopped"
    /\ ex_proc = "none"
    /\ ex_call = "none"
    /\ ex_ctx = "none"
    /\ ex_history = << >>
    /\ launchable = TRUE
    /\ srv_up = FALSE
    /\ srv_version = "13"

RetryInit ==
    /\ AllocUnused
    /\ JanitorsUnused
    /\ ExtraUnused
    /\ RetryUnused
    /\ ExecutorUnused

\* a caller calls retry with some timeout, when no retry is in progress
CallRetry ==
    /\ r_pc \in {"idle", "returned", "TimeoutError", "propagated"}
    /\ \E t \in 0..MaxTimeout : RetryCall(t)
    /\ UNCHANGED <<execVars, allocVars, janitorVars, connVars, extraVars>>

Operation ==
    /\ RetryInvoke(OperationOutcomes)
    /\ UNCHANGED <<execVars, allocVars, janitorVars, connVars, extraVars>>

Sleep ==
    /\ RetrySleep
    /\ UNCHANGED <<execVars, allocVars, janitorVars, connVars, extraVars>>

RetryNext == CallRetry \/ Operation \/ Sleep

RetrySpec == RetryInit /\ [][RetryNext]_vars

\* retry runs on: its loop is not suspended forever between two steps
FairRetrySpec == RetrySpec /\ WF_vars(Operation) /\ WF_vars(Sleep)

(* --------------------------- process executor -------------------------- *)
\* versions a server reports; the tests' PatchedPostgreSQLExecutor says 8.9
Versions == {"8.9", "13"}
below_minimum(version) == version = "8.9"

\* running(): the managed process is alive
running_(proc) == proc = "alive"

\* what the health probe's connection attempt does
ProbeOutcomes ==
    IF srv_up THEN { Succeeds("connection") }
              ELSE { RaisesRetryable("OperationalError") }

\* (mutant) a version check that raises and leaves the server running
after_reachable_left_running(version) ==
    IF below_minimum(version)
    THEN [state |-> "Stopped", proc |-> "alive", result |-> "UnsupportedVersion"]
    ELSE [state |-> "Running", proc |-> "alive", result |-> "ok"]

\* start(), once the server answers: the version check
after_reachable(version) ==
    IF below_minimum(version)
    THEN [state |-> "Stopped", proc |-> "dead", result |-> "UnsupportedVersion"]
    ELSE [state |-> "Running", proc |-> "alive", result |-> "ok"]

\* (mutant) a start timeout that leaves the half-started process
after_timeout_process_left ==
    [state |-> "Stopped", proc |-> "alive", result |-> "StartupTimeout"]

\* start(), when the health probe timed out: the process is killed
after_timeout ==
    [state |-> "Stopped", proc |-> "dead", result |-> "StartupTimeout"]

\* (mutant) stop() that refuses an executor that is not running
stop_when_stopped_raises(proc) == [proc |-> proc, result |-> "NotRunning"]

\* stop() of an executor that is not running: nothing to do, no error
stop_when_stopped(proc) == [proc |-> proc, result |-> "ok"]

\* (mutant) stop() that marks the executor stopped at once
stop_begins_stopped(state) == IF state = "Running" THEN "Stopped" ELSE state

\* stop() of a running executor starts stopping it
stop_begins(state) == IF state = "Running" THEN "Stopping" ELSE state

Finished(m, result) == Append(ex_history, [m |-> m, result |-> result])

ExecutorInit ==
    /\ AllocUnused
    /\ JanitorsUnused
    /\ ExtraUnused
    /\ RetryUnused
    /\ ex_state = "Stopped"
    /\ ex_proc = "none"
    /\ ex_call = "none"
    /\ ex_ctx = "none"
    /\ ex_history = << >>
    /\ launchable \in BOOLEAN
    /\ srv_up = FALSE
    /\ srv_version \in Versions

\* start() is called, directly or by `with executor:`: the start command is
\* launched and the health probe begins
StartCall(via) ==
    /\ ex_call = "none"
    /\ ex_state = "Stopped"
    /\ Len(ex_history) < MaxExecCalls
    /\ ex_ctx \in {"none", "exited", "failed"}
    /\ ex_call' = "start"
    /\ ex_state' = "Starting"
    /\ ex_ctx' = IF via = "with" THEN "entering" ELSE "none"
    /\ IF launchable
       THEN /\ ex_proc' = "alive"
            /\ \E t \in 0..MaxTimeout : RetryCall(t)
       ELSE /\ UNCHANGED ex_proc
            /\ UNCHANGED retryVars
    /\ UNCHANGED <<ex_history, launchable, srv_up, srv_version>>
    /\ UNCHANGED <<allocVars, janitorVars, connVars, extraVars>>

\* the start command could not be launched
LaunchFailed ==
    /\ ex_state = "Starting"
    /\ ~running_(ex_proc)
    /\ ex_state' = "Stopped"
    /\ ex_call' = "none"
    /\ ex_history' = Finished("start", "LaunchError")
    /\ ex_ctx' = IF ex_ctx = "entering" THEN "failed" ELSE ex_ctx
    /\ UNCHANGED <<ex_proc, launchable, srv_up, srv_version>>
    /\ UNCHANGED <<retryVars, allocVars, janitorVars, connVars, extraVars>>

\* the health probe tries to open a client connection
Probe ==
    /\ ex_state = "Starting"
    /\ RetryInvoke(ProbeOutcomes)
    /\ UNCHANGED <<execVars, allocVars, janitorVars, connVars, extraVars>>

ProbeSleep ==
    /\ ex_state = "Starting"
    /\ RetrySleep
    /\ UNCHANGED <<execVars, allocVars, janitorVars, connVars, extraVars>>

\* the launched server begins to answer
ServerAnswers ==
    /\ running_(ex_proc)
    /\ ~srv_up
    /\ srv_up' = TRUE
    /\ UNCHANGED <<ex_state, ex_proc, ex_call, ex_ctx, ex_history,
                   launchable, srv_version>>
    /\ UNCHANGED <<retryVars, allocVars, janitorVars, connVars, extraVars>>

\* the probe succeeded: the version is queried; start() returns, or stops
\* the server and raises
StartReachable ==
    /\ ex_state = "Starting"
    /\ r_pc = "returned"
    /\ LET a == after_reachable(srv_version)
       IN  /\ ex_state' = a.state
           /\ ex_proc' = a.proc
           /\ srv_up' = running_(a.proc)
           /\ ex_history' = Finished("start", a.result)
           /\ ex_ctx' = IF ex_ctx = "entering"
                        THEN (IF a.result = "ok" THEN "body" ELSE "failed")
                        ELSE ex_ctx
    /\ ex_call' = "none"
    /\ UNCHANGED <<launchable, srv_version>>
    /\ UNCHANGED <<retryVars, allocVars, janitorVars, connVars, extraVars>>

\* the probe timed out: the half-started process is killed, start() raises
StartTimedOut ==
    /\ ex_state = "Starting"
    /\ r_pc = "TimeoutError"
    /\ ex_state' = after_timeout.state
    /\ ex_proc' = after_timeout.proc
    /\ srv_up' = (srv_up /\ running_(after_timeout.proc))
    /\ ex_history' = Finished("start", after_timeout.result)
    /\ ex_ctx' = IF ex_ctx = "entering" THEN "failed" ELSE ex_ctx
    /\ ex_call' = "none"
    /\ UNCHANGED <<launchable, srv_version>>
    /\ UNCHANGED <<retryVars, allocVars, janitorVars, connVars, extraVars>>

\* stop() is called, directly or at the exit of `with executor:`
StopCall(via) ==
    /\ ex_call = "none"
    /\ Len(ex_history) < MaxExecCalls
    /\ IF via = "with" THEN ex_ctx = "body"
                       ELSE ex_ctx \in {"none", "exited", "failed"}
    /\ ex_state' = stop_begins(ex_state)
    /\ IF ex_state = "Running"
       THEN /\ ex_call' = "stop"
            /\ ex_ctx' = IF via = "with" THEN "exiting" ELSE ex_ctx
            /\ UNCHANGED <<ex_proc, ex_history>>
       ELSE /\ ex_proc' = stop_when_stopped(ex_proc).proc
            /\ ex_history' = Finished("stop", stop_when_stopped(ex_proc).result)
            /\ UNCHANGED <<ex_call, ex_ctx>>
    /\ UNCHANGED <<launchable, srv_up, srv_version>>
    /\ UNCHANGED <<retryVars, allocVars, janitorVars, connVars, extraVars>>

\* the stop command, or the fallback termination, has ended the process
StopDone ==
    /\ ex_call = "stop"
    /\ ex_state' = "Stopped"
    /\ ex_proc' = "dead"
    /\ srv_up' = FALSE
    /\ ex_call' = "none"
    /\ ex_history' = Finished("stop", "ok")
    /\ ex_ctx' = IF ex_ctx = "exiting" THEN "exited" ELSE ex_ctx
    /\ UNCHANGED <<launchable, srv_version>>
    /\ UNCHANGED <<retryVars, allocVars, janitorVars, connVars, extraVars>>

ExecutorNext ==
    \/ \E via \in {"call", "with"} : StartCall(via)
    \/ LaunchFailed
    \/ Probe
    \/ ProbeSleep
    \/ ServerAnswers
    \/ StartReachable
    \/ StartTimedOut
    \/ \E via \in {"call", "with"} : StopCall(via)
    \/ StopDone

ExecutorSpec == ExecutorInit /\ [][ExecutorNext]_vars

(* -------------------------- executor: claims --------------------------- *)
LastCall == ex_history[Len(ex_history)]
StartEnded == ex_call = "none" /\ Len(ex_history) >= 1 /\ LastCall.m = "start"
StopEnded == ex_call = "none" /\ Len(ex_history) >= 1 /\ LastCall.m = "stop"

\* C16: a start() against a server of a version below the minimum never
\* returns, and after it running() is false; whenever the server answered,
\* so that it reported its version, the error start() raised is the
\* unsupported-version error, and that error is raised for no other server.
C16_UnsupportedVersionStopsServer ==
    /\ (StartEnded /\ below_minimum(srv_version)) =>
          /\ LastCall.result # "ok"
          /\ ~running_(ex_proc)
          /\ r_pc = "returned" => LastCall.result = "UnsupportedVersion"
    /\ \A i \in 1..Len(ex_history) :
          ex_history[i].result = "UnsupportedVersion" => below_minimum(srv_version)

\* the server answered after failed probes, reported 8.9, and was stopped
C16_Witness ==
    /\ StartEnded
    /\ LastCall.result = "UnsupportedVersion"
    /\ Len(r_log) >= 2
    /\ ex_proc = "dead"

\* C17: every stop() that has ended raised nothing - called twice in a row,
\* or on an executor never started - and after it running() is false.
C17_StopIsIdempotent ==
    /\ \A i \in 1..Len(ex_history) :
          ex_history[i].m = "stop" => ex_history[i].result = "ok"
    /\ StopEnded => (~running_(ex_proc) /\ ex_state = "Stopped")

\* start(), stop(), stop() again
C17_Witness ==
    /\ Len(ex_history) = 3
    /\ ex_history[1] = [m |-> "start", result |-> "ok"]
    /\ ex_history[2].m = "stop"
    /\ ex_history[3].m = "stop"
    /\ ex_state = "Stopped"

\* the steps the lifecycle state may take
LifecycleEdges ==
    { << "Stopped", "Starting" >>, << "Starting", "Running" >>,
      << "Running", "Stopping" >>, << "Stopping", "Stopped" >>,
      << "Starting", "Stopped" >> }

\* C18: the lifecycle state changes only along Stopped -> Starting ->
\* Running -> Stopping -> Stopped and Starting -> Stopped; in the body of
\* `with executor:` the executor is Running and running() is true; after
\* the exit of the context it is Stopped and running() is false.
C18_LifecycleOrder ==
    /\ [][ ex_state' # ex_state => << ex_state, ex_state' >> \in LifecycleEdges ]_vars
    /\ [](ex_ctx = "body" => (ex_state = "Running" /\ running_(ex_proc)))
    /\ [](ex_ctx = "exited" => (ex_state = "Stopped" /\ ~running_(ex_proc)))

\* a whole `with executor:` has been gone through
C18_Witness ==
    /\ ex_ctx = "exited"
    /\ Len(ex_history) = 2
    /\ ex_history[1] = [m |-> "start", result |-> "ok"]
    /\ ex_history[2] = [m |-> "stop", result |-> "ok"]

\* C19: when the health probe of a start() ran out of time, start() has
\* failed with the startup-timeout error; and after any failed start no
\* managed process is alive.
C19_StartupTimeoutKillsProcess ==
    StartEnded =>
        /\ r_pc = "TimeoutError" => LastCall.result = "StartupTimeout"
        /\ LastCall.result = "StartupTimeout" => r_pc = "TimeoutError"
        /\ LastCall.result # "ok" => ~running_(ex_proc)

\* the launched server never answered; the probe gave up after several
\* attempts and the process was killed
C19_Witness ==
    /\ StartEnded
    /\ LastCall.result = "StartupTimeout"
    /\ Len(r_log) >= 2
    /\ r_elapsed > r_timeout
    /\ ex_proc = "dead"

(* ---------------------------- retry: claims ---------------------------- *)
\* C20: an invocation that succeeded is the last one retry made, and retry
\* returned its result; retry returns only so; while retry sleeps before
\* another invocation the timeout has not elapsed; and a TimeoutError comes
\* after invocations that all raised the retryable error, with the timeout
\* elapsed, and wraps the error of the last of them.
C20_RetryReturnsFirstSuccess ==
    /\ \A i \in 1..Len(r_log) :
          r_log[i].kind = "ok" =>
              /\ i = Len(r_log)
              /\ r_pc = "returned"
              /\ r_result = r_log[i].value
    /\ r_pc = "returned" => (Len(r_log) >= 1 /\ r_log[Len(r_log)].kind = "ok")
    /\ r_pc = "sleep" => r_elapsed <= r_timeout
    /\ r_pc = "TimeoutError" =>
          /\ Len(r_log) >= 1
          /\ \A i \in 1..Len(r_log) : r_log[i].kind = "retryable"
          /\ r_elapsed > r_timeout
          /\ r_raised = [error |-> "TimeoutError",
                         cause |-> r_log[Len(r_log)].value]

\* retry returned the result of an invocation that followed two failed ones
C20_Witness ==
    /\ r_pc = "returned"
    /\ Len(r_log) = 3
    /\ r_log[1].kind = "retryable"
    /\ r_log[2].kind = "retryable"
    /\ r_result = r_log[3].value

RetryEnded == r_pc \in {"returned", "TimeoutError", "propagated"}

\* C21: an invocation that raised an error other than the retryable one is
\* the last invocation retry made, whatever time was left; retry raised
\* that very error, not a TimeoutError and wrapping nothing; and retry
\* propagates an error only so.
C21_OtherErrorPropagates ==
    /\ \A i \in 1..Len(r_log) :
          r_log[i].kind = "other" =>
              /\ i = Len(r_log)
              /\ r_pc = "propagated"
              /\ r_raised = [error |-> r_log[i].value, cause |-> "none"]
    /\ r_pc = "propagated" =>
          (Len(r_log) >= 1 /\ r_log[Len(r_log)].kind = "other")

\* a non-matching error after a retried one, with time left
C21_Witness ==
    /\ r_pc = "propagated"
    /\ Len(r_log) = 2
    /\ r_log[1].kind = "retryable"
    /\ r_elapsed <= r_timeout
    /\ r_raised.error = "fatal"

\* C22: a call of retry always ends: while it runs, the time elapsed is at
\* most one sleep beyond the timeout, it has made at most one invocation per
\* unit of that time, and it goes on to return or raise; when every
\* invocation raised the retryable error it ends in TimeoutError, at most
\* one sleep and one invocation after the timeout.
C22_RetryTerminates ==
    /\ [](~RetryEnded => r_elapsed <= r_timeout + SleepInterval)
    /\ [](Len(r_log) <= r_timeout + SleepInterval + 1)
    /\ []((RetryEnded /\ \A i \in 1..Len(r_log) : r_log[i].kind = "retryable")
            => /\ r_pc = "TimeoutError"
               /\ r_elapsed <= r_timeout + SleepInterval + MaxOpTime)
    /\ (r_pc \in {"invoke", "sleep"}) ~> RetryEnded

\* the operation raised the retryable error every time, for as long as the
\* longest timeout allows
C22_Witness ==
    /\ r_pc = "TimeoutError"
    /\ r_timeout = MaxTimeout
    /\ Len(r_log) >= 2
    /\ \A i \in 1..Len(r_log) : r_log[i].kind = "retryable"

(* ---------------------- janitor: the two variants ----------------------- *)
\* what a caller can tell of a cursor(): whether it raised, and the
\* database and mode of the connection
Observed(cur) ==
    [raised |-> cur.raised, dbname |-> cur.conn.dbname,
     autocommit |-> cur.conn.autocommit,
     isolation_level |-> cur.conn.isolation_level, cursor |-> cur.conn.cursor]

\* C23: a DatabaseJanitor and an AsyncDatabaseJanitor constructed with the
\* same names have the same statements for init() and for drop(), what each
\* has issued is a prefix of them, and their load() resolves the same
\* target; with the same isolation level their cursors are connections of
\* the same mode to the same control database.
C23_SyncAsyncEquivalent ==
    LET s == "DatabaseJanitor"
        a == "AsyncDatabaseJanitor"
    IN  (constructed[s] = "yes" /\ constructed[a] = "yes" /\ jan[s] = jan[a]) =>
          /\ \A m \in {"init", "drop"} : Statements(s, m) = Statements(a, m)
          /\ \A j \in {s, a} :
                op[j] \in {"init", "drop"} =>
                    IsPrefix(issued[j], Statements(s, op[j]))
          /\ (op[s] = op[a] /\ ip[s] = ip[a] /\ running[s] /\ running[a]) =>
                issued[s] = issued[a]
          /\ \A j \in {s, a} :
                (op[j] = "load" /\ Len(invoked[j]) = 1) =>
                    invoked[j][1].dbname = db_to_load(jan[s])
          /\ ident[s].isolation_level = ident[a].isolation_level =>
                /\ Observed(CursorOf(s)) = Observed(CursorOf(a))
                /\ CursorOf(a).conn.dbname = ControlDb

\* both variants were given the same clone and ran init() on it: the
\* synchronous one created it, the asynchronous one issued the same two
\* statements and found it there
C23_Witness ==
    LET s == "DatabaseJanitor"
        a == "AsyncDatabaseJanitor"
    IN  /\ constructed[s] = "yes" /\ constructed[a] = "yes"
        /\ jan[s] = jan[a]
        /\ CloneJanitor(s)
        /\ op[s] = "init" /\ op[a] = "init"
        /\ ~running[s] /\ ~running[a]
        /\ Len(issued[a]) = 2
        /\ issued[s] = issued[a]

\* the statement janitor j executes next, when its method is running
NextStatement(j) == Statements(j, op[j])[ip[j] + 1]
AboutTo(j, m, kind) ==
    /\ running[j]
    /\ op[j] = m
    /\ NextStatement(j).kind = kind

\* C35: whenever drop() is about to execute DROP DATABASE, no session is
\* connected to its target, whatever the clients did while drop() ran: the
\* target has refused new connections since before its backends were
\* terminated.
C35_NoSessionAtDrop ==
    \A j \in Janitors :
        AboutTo(j, "drop", "drop_if_exists") =>
            LET target == NextStatement(j).db
            IN  /\ dbs[target].sessions = 0
                /\ ~dbs[target].allow_conn

\* drop() is about to execute DROP DATABASE on a database that exists, while
\* a client is connected to the other database
C35_Witness ==
    \E j \in Janitors :
        /\ AboutTo(j, "drop", "drop_if_exists")
        /\ dbs[NextStatement(j).db].exists
        /\ \E d \in DbNames \ {NextStatement(j).db} : dbs[d].sessions > 0

\* C36: whenever a clone janitor's init() is about to execute
\* CREATE DATABASE ... TEMPLATE, no session is connected to the template,
\* whatever the clients did after init() terminated the template's backends.
C36_NoSessionAtClone ==
    \A j \in Janitors :
        AboutTo(j, "init", "create_from") =>
            dbs[NextStatement(j).template].sessions = 0

\* C37: a janitor the constructor accepted has a non-empty database name
\* selected by is_template(): drop() resolves a non-empty target, and every
\* statement of init() and drop() and every loader call of load() names a
\* non-empty database.
C37_RoleAndNamesAgree ==
    \A j \in Janitors :
        constructed[j] = "yes" =>
            /\ ~Falsy(db_to_load(jan[j]))
            /\ \A i \in 1..Len(issued[j]) : ~Falsy(issued[j][i].db)
            /\ \A i \in 1..Len(invoked[j]) : ~Falsy(invoked[j][i].dbname)

(* ------------------------------ factories ------------------------------ *)
\* the fixture functions: postgresql_proc_fixture (process.py),
\* postgresql_noproc_fixture (noprocess.py) and the two postgresql_factory
\* functions of client.py
FixtureKinds == {"postgresql_proc", "postgresql_noproc", "postgresql",
                 "postgresql_async"}
ServerFixtures == {"postgresql_proc", "postgresql_noproc"}
ClientFixtures == {"postgresql", "postgresql_async"}

\* load lists: SQL files or callables, at most MaxLoad of them
LoadElements == {"test.sql", "test2.sql"}
LoadLists == UNION { [1..k -> LoadElements] : k \in 0..MaxLoad }

\* pg_load = load or config.load
pg_load(load, config_) == IF load = << >> THEN config_.load ELSE load

\* (mutant) a loop over pg_load from its end
load_element_reversed(load, i) == load[Len(load) + 1 - i]

\* for load_element in pg_load: the element of the i-th turn
load_element(load, i) == load[i]

\* the janitor each fixture constructs: the server fixtures name the
\* template only, the client fixtures a database and the template
janitor_of(kind) ==
    IF kind \in ServerFixtures
    THEN [dbname |-> NoName, template_dbname |-> "tpl"]
    ELSE [dbname |-> "db", template_dbname |-> "tpl"]

\* (mutant) a fixture that reads no drop_test_database
drop_test_database_ignored(kind, config_) == [raised |-> "none", value |-> FALSE]

\* the test of drop_test_database: `config.drop_test_database` in process.py,
\* `drop_test_database is True` in noprocess.py, and in client.py
\* `config["drop_test_database"]`, a subscript of the dataclass
\* PostgreSQLConfig, which defines no __getitem__: TypeError
drop_test_database(kind, config_) ==
    IF kind \in ClientFixtures
    THEN [raised |-> "TypeError", value |-> FALSE]
    ELSE [raised |-> "none", value |-> config_.drop_test_database]

\* (mutant) an exception leaves the function without any __exit__
unwind_without_exit(kind, pc_) == "raised"

\* where an exception raised at pc goes: out of the function, or to the
\* __exit__ of the innermost `with` the function is in
unwind(kind, pc_) ==
    CASE pc_ \in {"claim", "start"} -> "raised"
      [] pc_ \in {"wait", "construct", "drop_flag", "enter", "exit_janitor"} ->
            IF kind = "postgresql_proc" THEN "exit_executor" ELSE "raised"
      [] pc_ = "body" -> "exit_janitor"
      [] OTHER -> "raised"

\* (mutant) a _pg_exe that never raises
_pg_exe_never_raises(executable, exec_exists, pg_config) ==
    [raised |-> "none",
     value |-> IF executable # "None" THEN executable ELSE "config.exec"]

\* _pg_exe(executable, config): executable or config.exec; when that path
\* does not exist and no executable was passed, pg_ctl of
\* `pg_config --bindir`, or ExecutableMissingException when pg_config is
\* not found
_pg_exe(executable, exec_exists, pg_config) ==
    IF ~exec_exists /\ executable = "None"
    THEN IF pg_config
         THEN [raised |-> "none", value |-> "bindir/pg_ctl"]
         ELSE [raised |-> "ExecutableMissingException", value |-> "None"]
    ELSE [raised |-> "none",
          value |-> IF executable # "None" THEN executable ELSE "config.exec"]

\* the `executable` argument of postgresql_proc, whether the path (the
\* argument or config.exec) exists, and whether pg_config can be run
Environments ==
    [executable : {"None", "/usr/bin/pg_ctl"}, exec_exists : BOOLEAN,
     pg_config : BOOLEAN]

\* what the function has done: e names it, arg its database or load
\* element, ok tells whether it returned
Ev(e, arg, ok) == [e |-> e, arg |-> arg, ok |-> ok]

FixtureInit ==
    /\ AllocUnused
    /\ JanitorsUnused
    /\ RetryUnused
    /\ ExecutorUnused
    /\ OsUnused
    /\ LoaderUnused
    /\ XdistUnused
    /\ fx_kind \in FixtureKinds
    /\ fx_load \in LoadLists
    /\ fx_config \in [drop_test_database : BOOLEAN, load : LoadLists]
    /\ IF fx_kind = "postgresql_proc"
       THEN fx_env \in Environments
       ELSE fx_env = [executable |-> "None", exec_exists |-> TRUE,
                      pg_config |-> TRUE]
    /\ fx_pc = IF fx_kind = "postgresql_proc" THEN "resolve" ELSE "construct"
    /\ fx_janitor = [dbname |-> NoName, template_dbname |-> NoName]
    /\ fx_i = 0
    /\ fx_conn = "none"
    /\ fx_error = "none"
    /\ fx_trace = << >>

FixtureFrame ==
    /\ UNCHANGED <<fx_kind, fx_load, fx_config, fx_env>>
    /\ UNCHANGED <<allocVars, janitorVars, connVars, retryVars, execVars, osVars,
                   loaderVars, xdistVars>>

\* postgresql_ctl = _pg_exe(executable, config)
ResolveExecutable ==
    /\ fx_pc = "resolve"
    /\ LET exe == _pg_exe(fx_env.executable, fx_env.exec_exists, fx_env.pg_config)
       IN  /\ fx_error' = exe.raised
           /\ fx_pc' = IF exe.raised = "none" THEN "claim" ELSE "raised"
    /\ UNCHANGED <<fx_janitor, fx_i, fx_conn, fx_trace>>
    /\ FixtureFrame

\* the port claim loop: a claim file is created, or PortForException
ClaimPort ==
    /\ fx_pc = "claim"
    /\ \E ok \in BOOLEAN :
          /\ fx_trace' = Append(fx_trace, Ev("claim", "-", ok))
          /\ fx_pc' = IF ok THEN "start" ELSE unwind(fx_kind, fx_pc)
          /\ fx_error' = IF ok THEN fx_error ELSE "PortForException"
    /\ UNCHANGED <<fx_janitor, fx_i, fx_conn>>
    /\ FixtureFrame

\* with postgresql_executor: __enter__ starts the server
StartServer ==
    /\ fx_pc = "start"
    /\ \E ok \in BOOLEAN :
          /\ fx_trace' = Append(fx_trace, Ev("start", "-", ok))
          /\ fx_pc' = IF ok THEN "wait" ELSE unwind(fx_kind, fx_pc)
          /\ fx_error' = IF ok THEN fx_error ELSE "start"
    /\ UNCHANGED <<fx_janitor, fx_i, fx_conn>>
    /\ FixtureFrame

\* postgresql_executor.wait_for_postgres()
WaitForPostgres ==
    /\ fx_pc = "wait"
    /\ \E ok \in BOOLEAN :
          /\ fx_trace' = Append(fx_trace, Ev("answering", "-", ok))
          /\ fx_pc' = IF ok THEN "construct" ELSE unwind(fx_kind, fx_pc)
          /\ fx_error' = IF ok THEN fx_error ELSE "wait_for_postgres"
    /\ UNCHANGED <<fx_janitor, fx_i, fx_conn>>
    /\ FixtureFrame

\* janitor = DatabaseJanitor(...) / AsyncDatabaseJanitor(...)
ConstructJanitor ==
    /\ fx_pc = "construct"
    /\ fx_janitor' = janitor_of(fx_kind)
    /\ fx_pc' = "drop_flag"
    /\ UNCHANGED <<fx_i, fx_conn, fx_error, fx_trace>>
    /\ FixtureFrame

\* if <drop_test_database>: janitor.drop()
DropTestDatabase ==
    /\ fx_pc = "drop_flag"
    /\ LET flag == drop_test_database(fx_kind, fx_config)
       IN  IF flag.raised # "none"
           THEN /\ fx_error' = flag.raised
                /\ fx_pc' = unwind(fx_kind, fx_pc)
                /\ UNCHANGED fx_trace
           ELSE IF flag.value
           THEN \E ok \in BOOLEAN :
                   /\ fx_trace' = Append(fx_trace,
                                         Ev("drop", db_to_load(fx_janitor), ok))
                   /\ fx_pc' = IF ok THEN "enter" ELSE unwind(fx_kind, fx_pc)
                   /\ fx_error' = IF ok THEN fx_error ELSE "drop"
           ELSE /\ fx_pc' = "enter"
                /\ UNCHANGED <<fx_error, fx_trace>>
    /\ UNCHANGED <<fx_janitor, fx_i, fx_conn>>
    /\ FixtureFrame

\* with janitor: __enter__ calls init()
EnterJanitor ==
    /\ fx_pc = "enter"
    /\ \E ok \in BOOLEAN :
          /\ fx_trace' = Append(fx_trace, Ev("init", db_to_load(fx_janitor), ok))
          /\ fx_pc' = IF ok THEN "body" ELSE unwind(fx_kind, fx_pc)
          /\ fx_error' = IF ok THEN fx_error ELSE "init"
    /\ UNCHANGED <<fx_janitor, fx_i, fx_conn>>
    /\ FixtureFrame

\* inside `with janitor:`, before the yield: the server fixtures hand the
\* next element of pg_load to janitor.load, the client fixtures connect to
\* the database
Body ==
    /\ fx_pc = "body"
    /\ IF fx_kind \in ServerFixtures
       THEN /\ fx_i < Len(pg_load(fx_load, fx_config))
            /\ fx_i' = fx_i + 1
            /\ UNCHANGED fx_conn
            /\ \E ok \in BOOLEAN :
                  /\ fx_trace' = Append(fx_trace,
                        Ev("load", load_element(pg_load(fx_load, fx_config),
                                                fx_i + 1), ok))
                  /\ fx_pc' = IF ok THEN fx_pc ELSE unwind(fx_kind, fx_pc)
                  /\ fx_error' = IF ok THEN fx_error ELSE "load"
       ELSE /\ fx_conn = "none"
            /\ UNCHANGED fx_i
            /\ \E ok \in BOOLEAN :
                  /\ fx_trace' = Append(fx_trace, Ev("connect", fx_janitor.dbname, ok))
                  /\ fx_conn' = IF ok THEN "open" ELSE fx_conn
                  /\ fx_pc' = IF ok THEN fx_pc ELSE unwind(fx_kind, fx_pc)
                  /\ fx_error' = IF ok THEN fx_error ELSE "connect"
    /\ UNCHANGED fx_janitor
    /\ FixtureFrame

\* yield postgresql_executor / noop_exec / db_connection
Yield ==
    /\ fx_pc = "body"
    /\ IF fx_kind \in ServerFixtures
       THEN fx_i = Len(pg_load(fx_load, fx_config))
       ELSE fx_conn = "open"
    /\ fx_trace' = Append(fx_trace, Ev("yield", "-", TRUE))
    /\ fx_pc' = "yielded"
    /\ UNCHANGED <<fx_janitor, fx_i, fx_conn, fx_error>>
    /\ FixtureFrame

\* the end of `with janitor:`, at teardown or on an exception: the client
\* fixture resumed at teardown closes db_connection first; __exit__ calls
\* drop()
ExitJanitor ==
    /\ fx_pc \in {"yielded", "exit_janitor"}
    /\ fx_conn' = IF fx_pc = "yielded" /\ fx_conn = "open" THEN "closed"
                                                           ELSE fx_conn
    /\ \E ok \in BOOLEAN :
          LET err == IF ok THEN fx_error ELSE "drop"
          IN  /\ fx_trace' = Append(fx_trace,
                                    Ev("drop", db_to_load(fx_janitor), ok))
              /\ fx_error' = err
              /\ fx_pc' = IF unwind(fx_kind, "exit_janitor") = "exit_executor"
                          THEN "exit_executor"
                          ELSE IF err = "none" THEN "done" ELSE "raised"
    /\ UNCHANGED <<fx_janitor, fx_i>>
    /\ FixtureFrame

\* the end of `with postgresql_executor:`: __exit__ stops the server
ExitExecutor ==
    /\ fx_pc = "exit_executor"
    /\ fx_trace' = Append(fx_trace, Ev("stop", "-", TRUE))
    /\ fx_pc' = IF fx_error = "none" THEN "done" ELSE "raised"
    /\ UNCHANGED <<fx_janitor, fx_i, fx_conn, fx_error>>
    /\ FixtureFrame

FixtureNext ==
    \/ ResolveExecutable
    \/ ClaimPort
    \/ StartServer
    \/ WaitForPostgres
    \/ ConstructJanitor
    \/ DropTestDatabase
    \/ EnterJanitor
    \/ Body
    \/ Yield
    \/ ExitJanitor
    \/ ExitExecutor

FixtureSpec == FixtureInit /\ [][FixtureNext]_vars

(* -------------------------- factories: claims -------------------------- *)
Names(trace) == [i \in 1..Len(trace) |-> trace[i].e]
Positions(trace, e) == { i \in 1..Len(trace) : trace[i].e = e }
Loads(trace) == SelectSeq(trace, LAMBDA ev : ev.e = "load")
LoadEvents(load) == [i \in 1..Len(load) |-> Ev("load", load[i], TRUE)]

\* the stage of the process fixture an entry of the trace belongs to; a
\* drop() belongs to the teardown when init() was called before it
Stage(trace, i) ==
    CASE trace[i].e = "claim" -> 1
      [] trace[i].e = "start" -> 2
      [] trace[i].e = "answering" -> 3
      [] trace[i].e = "init" -> 5
      [] trace[i].e = "load" -> 6
      [] trace[i].e = "yield" -> 7
      [] trace[i].e = "drop" ->
            IF \E k \in 1..(i - 1) : trace[k].e = "init" THEN 8 ELSE 4
      [] OTHER -> 9

\* what the process fixture has done when it yields
ProcSetup ==
    << Ev("claim", "-", TRUE), Ev("start", "-", TRUE), Ev("answering", "-", TRUE) >>
    \o (IF fx_config.drop_test_database THEN << Ev("drop", "tpl", TRUE) >> ELSE << >>)
    \o << Ev("init", "tpl", TRUE) >>
    \o LoadEvents(pg_load(fx_load, fx_config))
    \o << Ev("yield", "-", TRUE) >>

\* C24: the process fixture goes through its stages in order - claim file,
\* server started, server answering, template created, loads, yield,
\* template dropped, server stopped - each at most once but the loads; the
\* loads it made are the first elements of the load list, in list order;
\* when it yields it has done all of them and every stage before, each
\* successfully; and after the yield it drops the template and then stops
\* the server, and does nothing else.
C24_ProcessFixtureOrder ==
    fx_kind = "postgresql_proc" =>
      /\ \A i, k \in 1..Len(fx_trace) :
            i < k => /\ Stage(fx_trace, i) <= Stage(fx_trace, k)
                     /\ Stage(fx_trace, i) = Stage(fx_trace, k)
                           => fx_trace[i].e = "load"
      /\ LET done == Loads(fx_trace)
             all == pg_load(fx_load, fx_config)
         IN  /\ Len(done) <= Len(all)
             /\ \A i \in 1..Len(done) : done[i].arg = all[i]
      /\ Positions(fx_trace, "yield") # {} =>
            /\ IsPrefix(ProcSetup, fx_trace)
            /\ IsPrefix(Names(SubSeq(fx_trace, Len(ProcSetup) + 1, Len(fx_trace))),
                        << "drop", "stop" >>)
      /\ (fx_pc \in {"done", "raised"} /\ Positions(fx_trace, "yield") # {}) =>
            Len(fx_trace) = Len(ProcSetup) + 2

\* the process fixture loaded two files, yielded and was torn down
C24_Witness ==
    /\ fx_kind = "postgresql_proc"
    /\ fx_pc = "done"
    /\ pg_load(fx_load, fx_config) = << "test.sql", "test2.sql" >>
    /\ Names(fx_trace) = << "claim", "start", "answering", "init", "load", "load",
                            "yield", "drop", "stop" >>

\* C25: whatever the fixture and drop_test_database, a load() or drop() of
\* the fixture's janitor comes after an init() of it that returned.
C25_InitBeforeLoadAndDrop ==
    \A i \in 1..Len(fx_trace) :
        fx_trace[i].e \in {"load", "drop"} =>
            \E k \in 1..(i - 1) : fx_trace[k] = Ev("init", fx_trace[k].arg, TRUE)

SetupEnded == fx_pc \in {"yielded", "done", "raised"}

\* C26: with drop_test_database disabled and a server on which nothing the
\* fixture calls fails, the setup of a client fixture ends at its yield,
\* having called no drop(), having created the database from the template
\* by init(), and having opened the connection to it.
C26_ClientSetupWithoutDrop ==
    (/\ fx_kind \in ClientFixtures
     /\ ~fx_config.drop_test_database
     /\ SetupEnded
     /\ \A i \in 1..Len(fx_trace) : fx_trace[i].ok) =>
        /\ Positions(fx_trace, "yield") # {}
        /\ LET y == CHOOSE i \in Positions(fx_trace, "yield") : TRUE
           IN  /\ \A i \in 1..y : fx_trace[i].e # "drop"
               /\ \E i \in 1..y : fx_trace[i] = Ev("init", "db", TRUE)
               /\ \E i \in 1..y : fx_trace[i] = Ev("connect", "db", TRUE)
        /\ init(fx_janitor)[Len(init(fx_janitor))] = CreateFromStmt("db", "tpl")

(* ------------------ executor: start command and stop() ----------------- *)
\* a command template: literal pieces and the fields format() fills in
Lit(text) == [kind |-> "lit", text |-> text]
Field(name) == [kind |-> "field", text |-> name]
SQ == Lit("'")
DQ == Lit("\"")

\* PostgreSQLExecutor.UNIX_PROC_START_COMMAND:
\*   {executable} start -D "{datadir}" -o "-F -p {port}
\*   -c log_destination='stderr' -c logging_collector=off
\*   -c unix_socket_directories='{unixsocketdir}' {postgres_options}"
\*   -l "{logfile}" {startparams}
UNIX_PROC_START_COMMAND ==
    << Field("executable"), Lit("start"), Lit("-D"), DQ, Field("datadir"), DQ,
       Lit("-o"), DQ, Lit("-F"), Lit("-p"), Field("port"),
       Lit("-c"), Lit("log_destination="), SQ, Lit("stderr"), SQ,
       Lit("-c"), Lit("logging_collector=off"),
       Lit("-c"), Lit("unix_socket_directories="), SQ, Field("unixsocketdir"), SQ,
       Field("postgres_options"), DQ,
       Lit("-l"), DQ, Field("logfile"), DQ, Field("startparams") >>

\* PostgreSQLExecutor.WINDOWS_PROC_START_COMMAND: no single quotes, no
\* unix_socket_directories
WINDOWS_PROC_START_COMMAND ==
    << Field("executable"), Lit("start"), Lit("-D"), DQ, Field("datadir"), DQ,
       Lit("-o"), DQ, Lit("-F"), Lit("-p"), Field("port"),
       Lit("-c"), Lit("log_destination="), Lit("stderr"),
       Lit("-c"), Lit("logging_collector=off"),
       Field("postgres_options"), DQ,
       Lit("-l"), DQ, Field("logfile"), DQ, Field("startparams") >>

\* (mutant) one template for every platform
start_command_template_unix(system) == UNIX_PROC_START_COMMAND

\* the template by platform.system()
start_command_template(system) ==
    IF system = "Windows" THEN WINDOWS_PROC_START_COMMAND
                          ELSE UNIX_PROC_START_COMMAND

\* template.format(**params)
format(template, params) ==
    [i \in 1..Len(template) |->
        IF template[i].kind = "field" THEN params[template[i].text]
                                      ELSE template[i].text]

Platforms == {"Windows", "Linux", "Darwin"}
Signals == {"None", "SIGINT"}

\* the arguments the tests construct executors with
ExecutorArgs ==
    [executable : {"/path/to/pg_ctl"}, datadir : {"/tmp/data"}, port : {"5432"},
     logfile : {"/tmp/log"},
     unixsocketdir : {"/tmp/socket", "/tmp/my socket dir"},
     postgres_options : {"", "-N 50"},
     startparams : {"-w", "-w -s"}]

\* PostgreSQLExecutor(...): the command is made at construction
new_executor(system, args) ==
    [executable |-> args.executable, datadir |-> args.datadir,
     port |-> args.port, logfile |-> args.logfile,
     unixsocketdir |-> args.unixsocketdir,
     postgres_options |-> args.postgres_options,
     startparams |-> args.startparams,
     command |-> format(start_command_template(system), args)]

\* a call stop() or the direct-terminate routine makes
CallOf(name, args, result) == [call |-> name, args |-> args, result |-> result]

\* the graceful stop command: pg_ctl stop -D <datadir> -m f
pg_ctl_stop(self) == << self.executable, "stop", "-D", self.datadir, "-m", "f" >>

\* after the graceful stop: the direct-terminate routine on Windows, the
\* parent executor's stop elsewhere
os_termination(system) == IF system = "Windows" THEN "terminate" ELSE "parent"

\* (mutant) a stop() that lets the parent's AttributeError out
after_parent_stop_raises(killpg) == IF killpg THEN "return" ELSE "raised"

\* the parent's stop kills the process group; where os.killpg is missing it
\* raises AttributeError and stop() falls back to the direct-terminate routine
after_parent_stop(killpg) == IF killpg THEN "return" ELSE "terminate"

\* (mutant) a routine that never force-kills
after_wait_no_kill(timed_out) == "return"

\* process.wait(timeout): when it times out the process is killed
after_wait(timed_out) == IF timed_out THEN "kill" ELSE "return"

OsInit ==
    /\ AllocUnused
    /\ JanitorsUnused
    /\ RetryUnused
    /\ ExecutorUnused
    /\ FixtureUnused
    /\ LoaderUnused
    /\ XdistUnused
    /\ platform_system \in Platforms
    /\ has_killpg \in BOOLEAN
    /\ platform_system = "Windows" => ~has_killpg
    /\ executor = NoExecutor
    /\ st_pc = "none"
    /\ st_via = "none"
    /\ st_args = [sig |-> "None", exp_sig |-> "None"]
    /\ st_calls = << >>
    /\ st_result = "none"

OsFrame ==
    /\ UNCHANGED <<platform_system, has_killpg>>
    /\ UNCHANGED <<allocVars, janitorVars, connVars, retryVars, execVars,
                   fixtureVars, loaderVars, xdistVars>>

\* PostgreSQLExecutor(executable=..., ...)
NewExecutor ==
    /\ st_pc = "none"
    /\ \E args \in ExecutorArgs : executor' = new_executor(platform_system, args)
    /\ st_pc' = "constructed"
    /\ UNCHANGED <<st_via, st_args, st_calls, st_result>>
    /\ OsFrame

\* stop(sig, exp_sig): the graceful stop command is run
Stop ==
    /\ st_pc = "constructed"
    /\ \E sig \in Signals, exp_sig \in Signals :
          st_args' = [sig |-> sig, exp_sig |-> exp_sig]
    /\ st_via' = "stop"
    /\ st_calls' = Append(st_calls, CallOf("check_output", pg_ctl_stop(executor), "ok"))
    /\ st_pc' = os_termination(platform_system)
    /\ UNCHANGED <<executor, st_result>>
    /\ OsFrame

\* super().stop(sig, exp_sig)
ParentStop ==
    /\ st_pc = "parent"
    /\ LET next == after_parent_stop(has_killpg)
       IN  /\ st_calls' = Append(st_calls,
                 CallOf("super.stop", << st_args.sig, st_args.exp_sig >>,
                        IF has_killpg THEN "ok" ELSE "AttributeError"))
           /\ st_pc' = next
    /\ UNCHANGED <<executor, st_via, st_args, st_result>>
    /\ OsFrame

\* _windows_terminate_process() called by itself, as the tests do
DirectTerminate ==
    /\ st_pc = "constructed"
    /\ st_via' = "direct"
    /\ st_pc' = "terminate"
    /\ UNCHANGED <<executor, st_args, st_calls, st_result>>
    /\ OsFrame

\* the routine: process.terminate()
Terminate ==
    /\ st_pc = "terminate"
    /\ st_calls' = Append(st_calls, CallOf("terminate", << >>, "ok"))
    /\ st_pc' = "wait"
    /\ UNCHANGED <<executor, st_via, st_args, st_result>>
    /\ OsFrame

\* the routine: process.wait(timeout=...)
Wait ==
    /\ st_pc = "wait"
    /\ \E timed_out \in BOOLEAN :
          /\ st_calls' = Append(st_calls,
                CallOf("wait", << "timeout" >>,
                       IF timed_out THEN "TimeoutExpired" ELSE "ok"))
          /\ st_pc' = after_wait(timed_out)
    /\ UNCHANGED <<executor, st_via, st_args, st_result>>
    /\ OsFrame

\* the routine: process.kill()
Kill ==
    /\ st_pc = "kill"
    /\ st_calls' = Append(st_calls, CallOf("kill", << >>, "ok"))
    /\ st_pc' = "wait_killed"
    /\ UNCHANGED <<executor, st_via, st_args, st_result>>
    /\ OsFrame

\* the routine: process.wait() after the kill
WaitKilled ==
    /\ st_pc = "wait_killed"
    /\ st_calls' = Append(st_calls, CallOf("wait", << >>, "ok"))
    /\ st_pc' = "return"
    /\ UNCHANGED <<executor, st_via, st_args, st_result>>
    /\ OsFrame

\* return self, from stop(); the routine returns nothing
Return ==
    /\ st_pc \in {"return", "raised"}
    /\ st_result' = IF st_pc = "raised" THEN "AttributeError"
                    ELSE IF st_via = "stop" THEN "self" ELSE "None"
    /\ st_pc' = "done"
    /\ UNCHANGED <<executor, st_via, st_args, st_calls>>
    /\ OsFrame

OsNext ==
    \/ NewExecutor
    \/ Stop
    \/ ParentStop
    \/ DirectTerminate
    \/ Terminate
    \/ Wait
    \/ Kill
    \/ WaitKilled
    \/ Return

OsSpec == OsInit /\ [][OsNext]_vars

(* ---------------------- executor: platform claims ---------------------- *)
CallNames(cs) == [i \in 1..Len(cs) |-> cs[i].call]
CallsNamed(cs, names) == { i \in 1..Len(cs) : cs[i].call \in names }
Contains(s, sub) ==
    \E i \in 0..(Len(s) - Len(sub)) : SubSeq(s, i + 1, i + Len(sub)) = sub

\* the cs of the direct-terminate routine: those from terminate() on
Routine(cs) ==
    IF CallsNamed(cs, {"terminate"}) = {} THEN << >>
    ELSE LET first == CHOOSE i \in CallsNamed(cs, {"terminate"}) :
                         \A k \in CallsNamed(cs, {"terminate"}) : i <= k
         IN  SubSeq(cs, first, Len(cs))

\* C27: stop() runs `pg_ctl stop -D <datadir> -m f` once, as its first call;
\* once it has returned it has returned the executor, and after the
\* graceful stop it made, on Windows, the calls of the direct-terminate
\* routine and no parent stop; on the other platforms one parent stop with
\* its own sig and exp_sig, followed by the direct-terminate routine exactly
\* when the parent stop raised for the missing os.killpg.
C27_StopSequence ==
    st_via = "stop" =>
      /\ Len(st_calls) >= 1
      /\ st_calls[1] = CallOf("check_output",
                              << executor.executable, "stop", "-D",
                                 executor.datadir, "-m", "f" >>, "ok")
      /\ CallsNamed(st_calls, {"check_output"}) = {1}
      /\ st_pc = "done" =>
            /\ st_result = "self"
            /\ IF platform_system = "Windows"
               THEN /\ CallsNamed(st_calls, {"super.stop"}) = {}
                    /\ Len(st_calls) >= 3
                    /\ Routine(st_calls) = SubSeq(st_calls, 2, Len(st_calls))
               ELSE /\ CallsNamed(st_calls, {"super.stop"}) = {2}
                    /\ st_calls[2].args = << st_args.sig, st_args.exp_sig >>
                    /\ IF has_killpg
                       THEN Len(st_calls) = 2 /\ st_calls[2].result = "ok"
                       ELSE /\ st_calls[2].result = "AttributeError"
                            /\ Len(st_calls) >= 4
                            /\ Routine(st_calls) = SubSeq(st_calls, 3, Len(st_calls))

\* a stop() on Linux without os.killpg fell back to the routine and returned
C27_Witness ==
    /\ st_via = "stop"
    /\ st_pc = "done"
    /\ platform_system = "Linux"
    /\ ~has_killpg
    /\ st_args.sig = "SIGINT"
    /\ CallNames(st_calls) = << "check_output", "super.stop", "terminate", "wait" >>

\* C28: the direct-terminate routine calls terminate() once, first, and
\* then waits with a timeout; it calls kill() exactly when that wait timed
\* out - once, after it, and followed by one more wait; once the routine has
\* returned its calls are terminate, wait, or terminate, wait, kill, wait.
C28_DirectTerminateSequence ==
    LET r == Routine(st_calls)
    IN  /\ Cardinality(CallsNamed(r, {"terminate"})) <= 1
        /\ IsPrefix(CallNames(r), << "terminate", "wait", "kill", "wait" >>)
        /\ Len(r) >= 3 => r[2].result = "TimeoutExpired"
        /\ (st_pc \in {"return", "done"} /\ r # << >>) =>
              /\ Len(r) \in {2, 4}
              /\ Len(r) = 2 <=> r[2].result = "ok"
              /\ Len(r) = 4 <=> r[2].result = "TimeoutExpired"
              /\ Cardinality(CallsNamed(r, {"kill"})) = (IF Len(r) = 4 THEN 1 ELSE 0)

\* the routine, called by itself, killed a process that did not end in time
C28_Witness ==
    /\ st_via = "direct"
    /\ st_pc = "done"
    /\ CallNames(st_calls) = << "terminate", "wait", "kill", "wait" >>
    /\ st_calls[2].result = "TimeoutExpired"

Separators == {".", ":"}
Components == {"tests", "loader"}
LoaderNames == {"load_database", "other"}

\* the position of the first separator of s, 0 when it has none
FirstSeparator(s) ==
    IF \E i \in 1..Len(s) : s[i] \in Separators
    THEN CHOOSE i \in 1..Len(s) :
            /\ s[i] \in Separators
            /\ \A k \in 1..(i - 1) : s[k] \notin Separators
    ELSE 0

\* re.split("[.:]", s, maxsplit): at most maxsplit splits, the rest of the
\* string is the last element
RECURSIVE re_split(_, _)
re_split(s, maxsplit) ==
    IF maxsplit = 0 \/ FirstSeparator(s) = 0
    THEN << s >>
    ELSE << SubSeq(s, 1, FirstSeparator(s) - 1) >>
         \o re_split(SubSeq(s, FirstSeparator(s) + 1, Len(s)), maxsplit - 1)

\* sep.join(parts)
RECURSIVE join(_, _)
join(sep, parts) ==
    IF parts = << >> THEN << >>
    ELSE IF Len(parts) = 1 THEN parts[1]
    ELSE parts[1] \o << sep >> \o join(sep, Tail(parts))

\* module paths of one to MaxDepth components, as lists of components
ModulePaths == UNION { [1..d -> Components] : d \in 1..MaxDepth }
Dotted(path) == join(".", [i \in 1..Len(path) |-> << path[i] >>])

\* the modules that can be imported: the packages of a module that exists
\* exist
sys_modules == { Dotted(path) : path \in ModulePaths }

\* importlib.import_module(name): the module, or "ModuleNotFoundError"
import_module(name) ==
    IF name \in sys_modules THEN name ELSE << "ModuleNotFoundError" >>

\* getattr(module, name): a str with a separator in it names no attribute;
\* a module that could not be imported has raised before
getattr(module, name) ==
    IF module = << "ModuleNotFoundError" >>
    THEN [status |-> "ModuleNotFoundError", module |-> << >>, name |-> name]
    ELSE IF Len(name) = 1 /\ name[1] \notin Separators
    THEN [status |-> "ok", module |-> module, name |-> name]
    ELSE [status |-> "AttributeError", module |-> module, name |-> name]

\* build_loader(load)
build_loader(load) ==
    IF load.kind = "Path"
    THEN [status |-> "ok", module |-> << "partial", "sql" >>, name |-> load.text]
    ELSE IF load.kind = "str"
    THEN LET loader_parts == re_split(load.text, 2)
             import_path == join(".", SubSeq(loader_parts, 1, Len(loader_parts) - 1))
             loader_name == loader_parts[Len(loader_parts)]
             _temp_import == import_module(import_path)
         IN  getattr(_temp_import, loader_name)
    ELSE [status |-> "ok", module |-> << "callable" >>, name |-> load.text]

\* build_loader_async(load)
build_loader_async(load) ==
    IF load.kind = "Path"
    THEN [status |-> "ok", module |-> << "partial", "sql_async" >>, name |-> load.text]
    ELSE IF load.kind = "str"
    THEN LET loader_parts == re_split(load.text, 2)
             import_path == join(".", SubSeq(loader_parts, 1, Len(loader_parts) - 1))
             loader_name == loader_parts[Len(loader_parts)]
             _temp_import == import_module(import_path)
         IN  getattr(_temp_import, loader_name)
    ELSE [status |-> "ok", module |-> << "callable" >>, name |-> load.text]

\* a file name with the .sql extension
SqlFile == << "schema", ".", "sql" >>

\* path.endswith(".sql")
endswith_sql(text) ==
    /\ Len(text) >= 2
    /\ SubSeq(text, Len(text) - 1, Len(text)) = << ".", "sql" >>

\* detect_paths(load_paths)
detect_paths(load_paths) ==
    [i \in 1..Len(load_paths) |->
        LET path == IF load_paths[i].kind = "LocalPath"
                    THEN [kind |-> "str", text |-> load_paths[i].text]
                    ELSE load_paths[i]
        IN  IF endswith_sql(path.text)
            THEN [kind |-> "Path", text |-> path.text]
            ELSE path]

\* the str '<module path><sep><name>'
Directive(path, sep, name) ==
    [kind |-> "str", text |-> Dotted(path) \o << sep, name >>]

Directives ==
    { Directive(path, sep, name) :
        path \in ModulePaths, sep \in Separators, name \in LoaderNames }
    \cup { [kind |-> "Path", text |-> SqlFile],
           [kind |-> "callable", text |-> << "load_database" >>] }

\* what the load option of the command line or the ini file holds
ConfigLoads ==
    { d \in Directives : d.kind = "str" }
    \cup { [kind |-> "str", text |-> SqlFile],
           [kind |-> "LocalPath", text |-> SqlFile] }

\* what a factory's load argument holds
FactoryLoads == Directives \cup { [kind |-> "str", text |-> SqlFile] }

LoadOrigins ==
    { [from |-> "config", raw |-> d] : d \in ConfigLoads }
    \cup { [from |-> "factory", raw |-> d] : d \in FactoryLoads }

\* the element as janitor.load receives it: get_config normalises the
\* option with detect_paths, `load or config.load` passes the argument on
load_of(origin) ==
    IF origin.from = "config"
    THEN detect_paths(<< origin.raw >>)[1]
    ELSE origin.raw

LoaderInit ==
    /\ AllocUnused
    /\ JanitorsUnused
    /\ RetryUnused
    /\ ExecutorUnused
    /\ FixtureUnused
    /\ OsUnused
    /\ XdistUnused
    /\ load_origin \in LoadOrigins
    /\ load_ = load_of(load_origin)
    /\ built_by = "none"
    /\ _loader = [status |-> "none", module |-> << >>, name |-> << >>]

LoaderFrame ==
    /\ UNCHANGED <<load_origin, load_>>
    /\ UNCHANGED <<allocVars, janitorVars, connVars, retryVars, execVars,
                   fixtureVars, osVars, xdistVars>>

BuildLoader ==
    /\ built_by = "none"
    /\ built_by' = "build_loader"
    /\ _loader' = build_loader(load_)
    /\ LoaderFrame

BuildLoaderAsync ==
    /\ built_by = "none"
    /\ built_by' = "build_loader_async"
    /\ _loader' = build_loader_async(load_)
    /\ LoaderFrame

LoaderNext == BuildLoader \/ BuildLoaderAsync

LoaderSpec == LoaderInit /\ [][LoaderNext]_vars

(* ---------------------------- loader: claims --------------------------- *)
\* C30: for a directive '<module path><sep><name>' with a module path of one
\* or more components, build_loader and build_loader_async return the
\* attribute <name> of exactly that module, and the "." and ":" forms of the
\* directive give the same result.
C30_DirectiveResolves ==
    \A path \in ModulePaths, sep \in Separators, name \in LoaderNames :
        (built_by # "none" /\ load_ = Directive(path, sep, name)) =>
            /\ _loader = [status |-> "ok", module |-> Dotted(path),
                          name |-> << name >>]
            /\ build_loader(Directive(path, ".", name))
                  = build_loader(Directive(path, ":", name))
            /\ build_loader_async(Directive(path, ".", name))
                  = build_loader_async(Directive(path, ":", name))

\* C31: a directive that is a path ending in .sql, from the configuration
\* or from a factory's load argument, is bound to the default file loader
\* with the path as its first argument; a callable is returned unchanged.
C31_SqlPathBound ==
    built_by # "none" =>
        /\ (load_origin.raw.kind # "callable"
            /\ endswith_sql(load_origin.raw.text)) =>
              _loader = [status |-> "ok",
                         module |-> << "partial",
                                       IF built_by = "build_loader"
                                       THEN "sql" ELSE "sql_async" >>,
                         name |-> load_origin.raw.text]
        /\ load_origin.raw.kind = "callable" =>
              _loader = [status |-> "ok", module |-> << "callable" >>,
                         name |-> load_origin.raw.text]

(* ----------------------- factories: more claims ------------------------ *)
\* C34: when no executable is passed, the configured path does not exist
\* and pg_config is not found, the process fixture raises
\* ExecutableMissingException from its one call of _pg_exe: it has claimed
\* no port, prepared no directory and launched no server, and it does
\* nothing afterwards; and it raises that exception in no other case.
C34_MissingExecutableFailsFast ==
    LET missing == /\ fx_kind = "postgresql_proc"
                   /\ fx_env.executable = "None"
                   /\ ~fx_env.exec_exists
                   /\ ~fx_env.pg_config
    IN  /\ (missing /\ fx_pc # "resolve") =>
              /\ fx_error = "ExecutableMissingException"
              /\ fx_pc = "raised"
              /\ fx_trace = << >>
              /\ ~ENABLED FixtureNext
        /\ fx_error = "ExecutableMissingException" => missing

C34_Witness ==
    /\ fx_kind = "postgresql_proc"
    /\ fx_env = [executable |-> "None", exec_exists |-> FALSE, pg_config |-> FALSE]
    /\ fx_pc = "raised"
    /\ fx_error = "ExecutableMissingException"

\* the first entry of the trace that failed, 0 when none did
FirstFailure(trace) ==
    IF \E i \in 1..Len(trace) : ~trace[i].ok
    THEN CHOOSE i \in 1..Len(trace) :
            ~trace[i].ok /\ \A k \in 1..(i - 1) : trace[k].ok
    ELSE 0

ConfiguredDbNames == { << "t" >>, << "t", "g", "w", "1" >>, << "t", "1" >> }

\* PYTEST_XDIST_WORKER: unset (the empty str stands for None) or gw<number>
WorkerIds == { << >>, << "g", "w", "0" >>, << "g", "w", "1" >>,
               << "g", "w", "1", "0" >> }

\* (mutant) a name that does not depend on the worker
xdistify_dbname_unchanged(dbname, xdist_worker_) == dbname

\* xdistify_dbname(dbname), with os.getenv("PYTEST_XDIST_WORKER") as its
\* second argument
xdistify_dbname(dbname, xdist_worker_) ==
    IF xdist_worker_ # << >> THEN dbname \o xdist_worker_ ELSE dbname

\* NoopExecutor.template_dbname
template_dbname(dbname) == dbname \o << "_", "t", "m", "p", "l" >>

\* the name of the database the janitor of worker w manages
ManagedBy(w) == template_dbname(xdistify_dbname(cfg_dbname, xdist_worker[w]))

\* the janitor of worker w acts on the database it manages
Touch(w) ==
    LET name == np_janitor[w]
    IN  touched' = IF name \in DOMAIN touched
                   THEN [touched EXCEPT ![name] = @ \cup {w}]
                   ELSE touched @@ (name :> {w})

XdistInit ==
    /\ AllocUnused
    /\ JanitorsUnused
    /\ RetryUnused
    /\ ExecutorUnused
    /\ FixtureUnused
    /\ OsUnused
    /\ LoaderUnused
    /\ cfg_dbname \in ConfiguredDbNames
    /\ xdist_worker \in [Workers -> WorkerIds]
    /\ np_pc = [w \in Workers |-> "construct"]
    /\ np_janitor = [w \in Workers |-> << >>]
    /\ touched = << >>

XdistFrame ==
    /\ UNCHANGED <<cfg_dbname, xdist_worker>>
    /\ UNCHANGED <<allocVars, janitorVars, connVars, retryVars, execVars,
                   fixtureVars, osVars, loaderVars>>

\* pg_dbname = xdistify_dbname(dbname or config.dbname); the NoopExecutor
\* and the janitor of its template_dbname are constructed
NoprocConstruct(w) ==
    /\ np_pc[w] = "construct"
    /\ np_janitor' = [np_janitor EXCEPT ![w] = ManagedBy(w)]
    /\ np_pc' = [np_pc EXCEPT ![w] = "enter"]
    /\ UNCHANGED touched
    /\ XdistFrame

\* `if drop_test_database is True: janitor.drop()` and `with janitor:`,
\* whose __enter__ calls init()
NoprocEnter(w) ==
    /\ np_pc[w] = "enter"
    /\ Touch(w)
    /\ np_pc' = [np_pc EXCEPT ![w] = "load"]
    /\ UNCHANGED np_janitor
    /\ XdistFrame

\* for load_element in pg_load: janitor.load(load_element); yield noop_exec
NoprocLoad(w) ==
    /\ np_pc[w] = "load"
    /\ Touch(w)
    /\ np_pc' = [np_pc EXCEPT ![w] = "yielded"]
    /\ UNCHANGED np_janitor
    /\ XdistFrame

\* the end of `with janitor:`: __exit__ calls drop()
NoprocExit(w) ==
    /\ np_pc[w] = "yielded"
    /\ Touch(w)
    /\ np_pc' = [np_pc EXCEPT ![w] = "done"]
    /\ UNCHANGED np_janitor
    /\ XdistFrame

XdistNext ==
    \E w \in Workers :
        \/ NoprocConstruct(w)
        \/ NoprocEnter(w)
        \/ NoprocLoad(w)
        \/ NoprocExit(w)

XdistSpec == XdistInit /\ [][XdistNext]_vars

(* ---------------------- noprocess under xdist: claims ------------------ *)
\* C40: two workers of one configured dbname whose worker ids differ have
\* different database names, and the janitor of neither acts on a database
\* the other manages.
C40_WorkersUseDistinctDatabases ==
    \A w, v \in Workers :
        (w # v /\ xdist_worker[w] # << >> /\ xdist_worker[v] # << >>
         /\ xdist_worker[w] # xdist_worker[v]) =>
            /\ xdistify_dbname(cfg_dbname, xdist_worker[w])
                  # xdistify_dbname(cfg_dbname, xdist_worker[v])
            /\ (np_pc[w] # "construct" /\ np_pc[v] # "construct") =>
                  np_janitor[w] # np_janitor[v]
            /\ \A name \in DOMAIN touched :
                  ~(w \in touched[name] /\ v \in touched[name])
            /\ \A name \in DOMAIN touched :
                  w \in touched[name] => name = ManagedBy(w)

\* two workers with ids gw1 and gw10, of a dbname that ends in gw1, have
\* both run init, load and drop
C40_Witness ==
    \E w, v \in Workers :
        /\ xdist_worker[w] = << "g", "w", "1" >>
        /\ xdist_worker[v] = << "g", "w", "1", "0" >>
        /\ cfg_dbname = << "t", "g", "w", "1" >>
        /\ np_pc[w] = "done"
        /\ np_pc[v] = "done"
        /\ Cardinality(DOMAIN touched) = 2

====
